---- MODULE Spec2Model ----
(***************************************************************************)
(* A model of the UKV core: the graph layer (graph_ref.hpp), the blob      *)
(* proxy (members_ref.hpp), the Java transaction binding                   *)
(* (com_unum_ukv_DataBase_Transaction.c) and the document layer            *)
(* (logic_docs.cpp).  Each subsystem has its own specification over the    *)
(* shared variable list; the variables of the other subsystems stay at     *)
(* their initial values.                                                   *)
(***************************************************************************)
EXTENDS Integers, Sequences, FiniteSets, TLC

VARIABLES
    adj,        \* graph collection: vertex key -> adjacency entry
    g_last,     \* the last graph call: [op, v, role]
    g_hist,     \* the edges upserted since the graph was empty, and the
                \* argument of the last remove(edges_view_t) call
    head,       \* substrate, committed content: key -> value
    txn,        \* substrate, per transaction: write buffer, read-set, status
    track_reads,\* py_txn_t::track_reads of every transaction
    t_hist,     \* what every transaction has read, written and been told
                \* by commit since it began
    b_log,      \* per context and key: the last blob operation made there
    b_res,      \* the last blob read and what it returned
    docs,       \* substrate content of the documents collection
    d_last      \* the last document call: its arguments and outputs

graph_vars == <<adj, g_last, g_hist>>
txn_vars == <<head, txn, track_reads, t_hist>>
blob_vars == <<b_log, b_res>>
docs_vars == <<docs, d_last>>

vars == <<adj, g_last, g_hist, head, txn, track_reads, t_hist, b_log, b_res, docs, d_last>>

(***************************************************************************)
(* Generic helpers on sequences.                                           *)
(***************************************************************************)
RECURSIVE SeqFilterOut(_, _)
\* the sequence s without the records whose neighbour is w
SeqFilterOut(s, w) ==
    IF s = <<>> THEN <<>>
    ELSE IF Head(s)[1] = w THEN SeqFilterOut(Tail(s), w)
         ELSE <<Head(s)>> \o SeqFilterOut(Tail(s), w)

RECURSIVE CountIn(_, _)
\* the number of occurrences of x in the sequence s
CountIn(s, x) ==
    IF s = <<>> THEN 0
    ELSE (IF Head(s) = x THEN 1 ELSE 0) + CountIn(Tail(s), x)

Range(s) == {s[i] : i \in 1..Len(s)}

(***************************************************************************)
(* GRAPH LAYER                                                             *)
(***************************************************************************)
MaxEdges == 3

Vertices == {1, 2, 3}
EdgeIds == {100, 200}
\* the "edge identity irrelevant" sentinel of remove requests
ukv_default_edge_id_k == -1

ukv_vertex_source_k == "source"
ukv_vertex_target_k == "target"
ukv_vertex_role_any_k == "any"
Roles == {ukv_vertex_source_k, ukv_vertex_target_k, ukv_vertex_role_any_k}

\* the degree reported for a vertex without an entry
ukv_vertex_degree_missing_k == -1

\* an adjacency entry: the out-portion followed by the in-portion,
\* each a list of <<neighbor, edge_id>> records
MissingEntry == [present |-> FALSE, outs |-> <<>>, ins |-> <<>>]

EdgeSet == [source_id : Vertices, target_id : Vertices, edge_id : EdgeIds]

\* one edge of an upsert call: append (v,e) to u's out-list and (u,e) to
\* v's in-list, creating the entries that are missing
UpsertEdge(g, edge) ==
    LET u == edge.source_id
        v == edge.target_id
        e == edge.edge_id
        g1 == [g EXCEPT ![u] = [present |-> TRUE,
                                outs |-> Append(g[u].outs, <<v, e>>),
                                ins |-> g[u].ins]]
    IN [g1 EXCEPT ![v] = [present |-> TRUE,
                          outs |-> g1[v].outs,
                          ins |-> Append(g1[v].ins, <<u, e>>)]]

RECURSIVE ukv_graph_upsert_edges(_, _)
ukv_graph_upsert_edges(g, edges) ==
    IF edges = <<>> THEN g
    ELSE ukv_graph_upsert_edges(UpsertEdge(g, Head(edges)), Tail(edges))

\* does the record rec of a list match the neighbour w under edge id e
MatchesEdge(rec, w, e) ==
    rec[1] = w /\ (e = ukv_default_edge_id_k \/ rec[2] = e)

RECURSIVE RemoveFirst(_, _, _)
\* the list s without its first record matching (w, e)
RemoveFirst(s, w, e) ==
    IF s = <<>> THEN <<>>
    ELSE IF MatchesEdge(Head(s), w, e) THEN Tail(s)
         ELSE <<Head(s)>> \o RemoveFirst(Tail(s), w, e)

\* RemoveEdge forgetting the target's in-list
RemoveEdge_OutListOnly(g, edge) ==
    [g EXCEPT ![edge.source_id].outs =
        RemoveFirst(g[edge.source_id].outs, edge.target_id, edge.edge_id)]

\* one edge of a remove call: a pair that is not found is skipped
RemoveEdge(g, edge) ==
    LET u == edge.source_id
        v == edge.target_id
        e == edge.edge_id
        g1 == [g EXCEPT ![u].outs = RemoveFirst(g[u].outs, v, e)]
    IN [g1 EXCEPT ![v].ins = RemoveFirst(g1[v].ins, u, e)]

RECURSIVE ukv_graph_remove_edges(_, _)
ukv_graph_remove_edges(g, edges) ==
    IF edges = <<>> THEN g
    ELSE ukv_graph_remove_edges(RemoveEdge(g, Head(edges)), Tail(edges))

\* the neighbours referenced from the portion of v's entry the role selects
FilteredOutNeighbors(g, v, role) ==
    IF role \in {ukv_vertex_source_k, ukv_vertex_role_any_k}
    THEN {rec[1] : rec \in Range(g[v].outs)} ELSE {}

FilteredInNeighbors(g, v, role) ==
    IF role \in {ukv_vertex_target_k, ukv_vertex_role_any_k}
    THEN {rec[1] : rec \in Range(g[v].ins)} ELSE {}

\* strip from every neighbour the records that reference v through the
\* opposite role
StripNeighbors(g, v, role) ==
    LET outN == FilteredOutNeighbors(g, v, role)
        inN == FilteredInNeighbors(g, v, role)
    IN [w \in Vertices |->
          [present |-> g[w].present,
           outs |-> IF w \in inN THEN SeqFilterOut(g[w].outs, v) ELSE g[w].outs,
           ins |-> IF w \in outN THEN SeqFilterOut(g[w].ins, v) ELSE g[w].ins]]

\* one vertex of a remove-vertices call
RemoveVertex(g, v, role) ==
    IF ~g[v].present THEN g
    ELSE LET g1 == StripNeighbors(g, v, role)
         IN [g1 EXCEPT ![v] =
               IF role = ukv_vertex_role_any_k THEN MissingEntry
               ELSE IF role = ukv_vertex_source_k
                    THEN [present |-> TRUE, outs |-> <<>>, ins |-> g1[v].ins]
                    ELSE [present |-> TRUE, outs |-> g1[v].outs, ins |-> <<>>]]

RECURSIVE ukv_graph_remove_vertices(_, _, _)
ukv_graph_remove_vertices(g, vertices, roles) ==
    IF vertices = <<>> THEN g
    ELSE ukv_graph_remove_vertices(RemoveVertex(g, Head(vertices), Head(roles)),
                                   Tail(vertices), Tail(roles))

\* the degrees ukv_graph_find_edges reports for one vertex
ukv_graph_find_edges_degree(g, v, role) ==
    IF ~g[v].present THEN ukv_vertex_degree_missing_k
    ELSE IF role = ukv_vertex_source_k THEN Len(g[v].outs)
    ELSE IF role = ukv_vertex_target_k THEN Len(g[v].ins)
    ELSE Len(g[v].outs) + Len(g[v].ins)

\* graph_ref_t::upsert(edges_view_t)
upsert(g, edges) == ukv_graph_upsert_edges(g, edges)

\* remove_edges giving up at the first edge that is not found
remove_edges_StopAtMissing(g, edges) ==
    LET found(i) == \E j \in 1..Len(g[edges[i].source_id].outs) :
                       MatchesEdge(g[edges[i].source_id].outs[j],
                                   edges[i].target_id, edges[i].edge_id)
        stop == {i \in 1..Len(edges) : ~found(i)}
        n == IF stop = {} THEN Len(edges)
             ELSE (CHOOSE i \in stop : \A j \in stop : i <= j) - 1
    IN ukv_graph_remove_edges(g, SubSeq(edges, 1, n))

\* remove_edges dropping every record a request matches, not the first one
RECURSIVE remove_edges_AllMatching(_, _)
remove_edges_AllMatching(g, edges) ==
    IF edges = <<>> THEN g
    ELSE LET u == Head(edges).source_id
             v == Head(edges).target_id
             e == Head(edges).edge_id
             g1 == [g EXCEPT ![u].outs =
                      SelectSeq(g[u].outs, LAMBDA rec : ~MatchesEdge(rec, v, e))]
             g2 == [g1 EXCEPT ![v].ins =
                      SelectSeq(g1[v].ins, LAMBDA rec : ~MatchesEdge(rec, u, e))]
         IN remove_edges_AllMatching(g2, Tail(edges))

\* graph_ref_t::remove(edges_view_t)
remove_edges(g, edges) == ukv_graph_remove_edges(g, edges)

\* graph_ref_t::remove(vertices, roles, flush)
remove_vertices(g, vertices, roles) == ukv_graph_remove_vertices(g, vertices, roles)

\* remove_vertex passing a fixed role instead of the caller's
remove_vertex_WrongRole(g, v, role) ==
    remove_vertices(g, <<v>>, <<ukv_vertex_source_k>>)

\* graph_ref_t::remove(vertex, role, flush)
remove_vertex(g, v, role) == remove_vertices(g, <<v>>, <<role>>)

\* degree asking for the whole entry whatever the role
degree_IgnoreRole(g, v, role) ==
    ukv_graph_find_edges_degree(g, v, ukv_vertex_role_any_k)

\* graph_ref_t::degree(vertex, role)
degree(g, v, role) == ukv_graph_find_edges_degree(g, v, role)

\* the edges ukv_graph_find_edges reports for one vertex: the records of the
\* portion the role selects, the out-portion first, as (source, target, id)
ukv_graph_find_edges_neighborships(g, v, role) ==
    LET outs == [i \in 1..Len(g[v].outs) |->
                   [source_id |-> v, target_id |-> g[v].outs[i][1],
                    edge_id |-> g[v].outs[i][2]]]
        ins == [i \in 1..Len(g[v].ins) |->
                  [source_id |-> g[v].ins[i][1], target_id |-> v,
                   edge_id |-> g[v].ins[i][2]]]
    IN IF role = ukv_vertex_source_k THEN outs
       ELSE IF role = ukv_vertex_target_k THEN ins
       ELSE outs \o ins

\* graph_ref_t::edges(vertex, role)
edges(g, v, role) ==
    LET edges_count == ukv_graph_find_edges_degree(g, v, role)
    IN IF edges_count = ukv_vertex_degree_missing_k THEN <<>>
       ELSE SubSeq(ukv_graph_find_edges_neighborships(g, v, role), 1, edges_count)

\* the length-only read behind members_ref_gt::present for a vertex entry
EntryLengthRead(g, v) == IF g[v].present THEN 1 ELSE ukv_vertex_degree_missing_k

\* graph_ref_t::contains(vertex)
contains(g, v) == EntryLengthRead(g, v) # ukv_vertex_degree_missing_k

\* std::lower_bound over ids[first+1 .. first+len] (offsets from zero)
RECURSIVE lower_bound(_, _, _, _)
lower_bound(ids, first, len, val) ==
    IF len = 0 THEN first
    ELSE LET half == len \div 2
             middle == first + half
         IN IF ids[middle + 1] < val
            THEN lower_bound(ids, middle + 1, len - half - 1, val)
            ELSE lower_bound(ids, first, half, val)

\* std::upper_bound over ids[first+1 .. first+len]
RECURSIVE upper_bound(_, _, _, _)
upper_bound(ids, first, len, val) ==
    IF len = 0 THEN first
    ELSE LET half == len \div 2
             middle == first + half
         IN IF val < ids[middle + 1]
            THEN upper_bound(ids, first, half, val)
            ELSE upper_bound(ids, middle + 1, len - half - 1, val)

\* the one-pass search of std::equal_range: halve until an equal element is
\* met, then search its left part for the lower and its right for the upper
RECURSIVE equal_range_halving(_, _, _, _)
equal_range_halving(ids, first, len, val) ==
    IF len = 0 THEN [first |-> first, second |-> first]
    ELSE LET half == len \div 2
             middle == first + half
         IN IF ids[middle + 1] < val
            THEN equal_range_halving(ids, middle + 1, len - half - 1, val)
            ELSE IF val < ids[middle + 1]
            THEN equal_range_halving(ids, first, half, val)
            ELSE [first |-> lower_bound(ids, first, half, val),
                  second |-> upper_bound(ids, middle + 1,
                                         first + len - (middle + 1), val)]

\* std::equal_range(begin, end, val): the range must be partitioned by val;
\* on a range that is not, the result is whatever the library's search
\* yields, the one-pass search or the pair of the two bounds
equal_range(ids, val) ==
    LET n == Len(ids)
        two == [first |-> lower_bound(ids, 0, n, val),
                second |-> upper_bound(ids, 0, n, val)]
    IN {equal_range_halving(ids, 0, n, val)}
       \cup (IF two.first <= two.second THEN {two} ELSE {})

\* edges(source, target) scanning the whole out-list for the target
edges_between_Scan(g, source, target) ==
    {SelectSeq(edges(g, source, ukv_vertex_source_k),
               LAMBDA e : e.target_id = target)}

\* graph_ref_t::edges(source, target): the results the search can give
edges_between(g, source, target) ==
    LET all == edges(g, source, ukv_vertex_source_k)
        target_ids == [i \in 1..Len(all) |-> all[i].target_id]
    IN {SubSeq(all, r.first + 1, r.second) : r \in equal_range(target_ids, target)}

\* neighbors taking the far end of every record
neighbors_FarEnd(g, vertex) ==
    LET es == edges(g, vertex, ukv_vertex_role_any_k)
    IN [i \in 1..Len(es) |->
          IF es[i].source_id = vertex THEN es[i].target_id ELSE es[i].source_id]

\* graph_ref_t::neighbors(vertex): the members of every record whose source
\* is the vertex are swapped, and the targets are returned
neighbors(g, vertex) ==
    LET es == edges(g, vertex, ukv_vertex_role_any_k)
        swapped == [i \in 1..Len(es) |->
                      IF es[i].source_id = vertex
                      THEN [source_id |-> es[i].target_id,
                            target_id |-> es[i].source_id,
                            edge_id |-> es[i].edge_id]
                      ELSE es[i]]
    IN [i \in 1..Len(swapped) |-> swapped[i].target_id]

(***************************************************************************)
(* SUBSTRATE: blobs under keys, optimistic transactions                    *)
(***************************************************************************)
Keys == {1, 2}
Txns == {1, 2}
\* the NULL transaction handle: the call works on the committed content
NullTxn == 0

\* ukv_val_len_missing_k is UINT32_MAX, the length no value can have
ukv_val_len_missing_k == -1

\* a stored value: absent, or present with its bytes (possibly none)
MissingVal == [present |-> FALSE, bytes |-> <<>>]
PresentVal(bytes) == [present |-> TRUE, bytes |-> bytes]

\* a value argument of ukv_write: the contents pointer may be NULL
NullArg == [ptr |-> "null", bytes |-> <<>>, len |-> 0]
DataArg(bytes) == [ptr |-> "data", bytes |-> bytes, len |-> Len(bytes)]

NoWrite == [w |-> "none", bytes |-> <<>>]
NoRead == [seen |-> FALSE, val |-> MissingVal]

\* a transaction right after ukv_txn_begin
FreshTxn ==
    [status |-> "active",
     buf |-> [k \in Keys |-> NoWrite],
     rset |-> [k \in Keys |-> "none"]]

\* ukv_txn_begin on an existing handle: the transaction starts over
ukv_txn_begin(tx, t) == [tx EXCEPT ![t] = FreshTxn]

\* the value a write task stores: a NULL contents pointer erases
WrittenVal(arg) ==
    IF arg.ptr = "null" THEN MissingVal ELSE PresentVal(SubSeq(arg.bytes, 1, arg.len))

\* every other transaction that read key k now holds a stale read
Invalidate(tx, t, ks) ==
    [u \in Txns |->
       IF u = t THEN tx[u]
       ELSE [tx[u] EXCEPT !.rset =
               [k \in Keys |-> IF k \in ks /\ tx[u].rset[k] = "fresh"
                               THEN "stale" ELSE tx[u].rset[k]]]]

\* ukv_write of one task: into the transaction's buffer, or, with the NULL
\* transaction, into the committed content
ukv_write(h, tx, t, k, arg) ==
    IF t = NullTxn
    THEN [head |-> [h EXCEPT ![k] = WrittenVal(arg)],
          txn |-> Invalidate(tx, NullTxn, {k})]
    ELSE [head |-> h,
          txn |-> [tx EXCEPT ![t].buf[k] =
                     IF arg.ptr = "null" THEN [w |-> "erase", bytes |-> <<>>]
                     ELSE [w |-> "put", bytes |-> SubSeq(arg.bytes, 1, arg.len)]]]

\* the value a read inside transaction t finds under k
ViewOf(h, tx, t, k) ==
    IF t # NullTxn /\ tx[t].buf[k].w = "put" THEN PresentVal(tx[t].buf[k].bytes)
    ELSE IF t # NullTxn /\ tx[t].buf[k].w = "erase" THEN MissingVal
    ELSE h[k]

\* ukv_read of one task: found length and bytes; a tracked read of the
\* committed content enters the transaction's read-set
ukv_read(h, tx, t, k, track) ==
    LET v == ViewOf(h, tx, t, k)
        fromHead == t = NullTxn \/ tx[t].buf[k].w = "none"
    IN [len |-> IF v.present THEN Len(v.bytes) ELSE ukv_val_len_missing_k,
        bytes |-> v.bytes,
        txn |-> IF t # NullTxn /\ track /\ fromHead /\ tx[t].rset[k] = "none"
                THEN [tx EXCEPT ![t].rset[k] = "fresh"] ELSE tx]

\* the keys transaction t has buffered writes for
WrittenKeys(tx, t) == {k \in Keys : tx[t].buf[k].w # "none"}

\* ukv_txn_commit: validate the read-set, then apply the buffer
ukv_txn_commit(h, tx, t) ==
    IF \E k \in Keys : tx[t].rset[k] = "stale"
    THEN [head |-> h, txn |-> tx, error |-> TRUE]
    ELSE [head |-> [k \in Keys |-> ViewOf(h, tx, t, k)],
          txn |-> [Invalidate(tx, t, WrittenKeys(tx, t)) EXCEPT ![t].status = "ended"],
          error |-> FALSE]

(***************************************************************************)
(* DOCUMENT LAYER: logic_docs.cpp.  JSON values, their text and binary     *)
(* forms.  A byte string is a sequence of chunks [enc, j]: one chunk for a *)
(* serialised document, one for a terminating NUL.                         *)
(***************************************************************************)
ukv_format_binary_k == "binary"
ukv_format_json_k == "json"
ukv_format_json_patch_k == "json_patch"
ukv_format_json_merge_patch_k == "json_merge_patch"
ukv_format_msgpack_k == "msgpack"
ukv_format_bson_k == "bson"
ukv_format_cbor_k == "cbor"
ukv_format_ubjson_k == "ubjson"
\* a format code that parse_any and dump_any have no case for
ukv_format_other_k == "other"

internal_format_k == ukv_format_msgpack_k

TextFormats ==
    {ukv_format_json_k, ukv_format_json_patch_k, ukv_format_json_merge_patch_k}
PackedFormats ==
    {ukv_format_msgpack_k, ukv_format_bson_k, ukv_format_cbor_k, ukv_format_ubjson_k}

\* ukv_error_t: NULL or a message
NoError == ""

\* json_t values; the members of an object are a function of their names
Discarded == [kind |-> "discarded"]
JNull == [kind |-> "null"]
JNum(n) == [kind |-> "number", n |-> n]
JStr(s) == [kind |-> "string", s |-> s]
JObj(m) == [kind |-> "object", m |-> m]
JArr(a) == [kind |-> "array", a |-> a]
JBin(b) == [kind |-> "binary", b |-> b]
JBool(b) == [kind |-> "boolean", b |-> b]
\* a floating-point number: tenths / 10 * 10^exp10
JFloat(tenths, exp10) == [kind |-> "number_float", tenths |-> tenths, exp10 |-> exp10]
EmptyMembers == [n \in {} |-> JNull]

\* JSON text: as json_t, but an object is the sequence of its name/value
\* pairs as written, and text that is no JSON at all is garbage
TObj(items) == [kind |-> "object_text", items |-> items]
TGarbage == [kind |-> "garbage"]

\* the member names, in the order std::map keeps them
NameOrder == <<"a", "b", "op", "path", "value">>
NameIndex(n) == CHOOSE i \in 1..Len(NameOrder) : NameOrder[i] = n

RECURSIVE SortedNames(_)
\* the names of a set as a sequence in std::map order
SortedNames(names) ==
    IF names = {} THEN <<>>
    ELSE LET first == CHOOSE n \in names :
                          \A o \in names : NameIndex(n) <= NameIndex(o)
         IN <<first>> \o SortedNames(names \ {first})

RECURSIVE ParseText(_)
\* json_t::parse without exceptions: the value, or discarded; of two members
\* with one name the later one stays
ParseText(t) ==
    IF t.kind = "object_text"
    THEN LET names == {t.items[i][1] : i \in 1..Len(t.items)}
             last(n) == CHOOSE i \in 1..Len(t.items) :
                           /\ t.items[i][1] = n
                           /\ \A j \in (i+1)..Len(t.items) : t.items[j][1] # n
             m == [n \in names |-> ParseText(t.items[last(n)][2])]
         IN IF \E i \in 1..Len(t.items) : ParseText(t.items[i][2]) = Discarded
            THEN Discarded ELSE JObj(m)
    ELSE IF t.kind = "array"
    THEN LET a == [i \in 1..Len(t.a) |-> ParseText(t.a[i])]
         IN IF \E i \in 1..Len(t.a) : a[i] = Discarded THEN Discarded ELSE JArr(a)
    ELSE IF t.kind \in {"null", "number", "string", "boolean", "number_float"} THEN t
    ELSE Discarded

RECURSIVE DumpText(_)
\* serializer::dump: members in std::map order; a discarded value is written
\* as the text <discarded>, which is no JSON
DumpText(j) ==
    IF j.kind = "object"
    THEN LET names == SortedNames(DOMAIN j.m)
         IN TObj([i \in 1..Len(names) |-> <<names[i], DumpText(j.m[names[i]])>>])
    ELSE IF j.kind = "array"
    THEN [kind |-> "array", a |-> [i \in 1..Len(j.a) |-> DumpText(j.a[i])]]
    ELSE IF j.kind \in {"null", "number", "string", "boolean", "number_float"} THEN j
    ELSE IF j.kind = "binary" THEN [kind |-> "binary_text", b |-> j.b]
    ELSE [kind |-> "discarded_text"]

Chunk(enc, j) == [enc |-> enc, j |-> j]
NulByte == Chunk("nul", JNull)
GarbageBytes == <<Chunk("garbage", JNull)>>

\* json_t::parse over bytes: a NUL ends the input
ParseJsonBytes(bytes) ==
    IF /\ bytes # <<>>
       /\ bytes[1].enc = "json"
       /\ Len(bytes) = 1 \/ bytes[2].enc = "nul"
    THEN ParseText(bytes[1].j) ELSE Discarded

\* json_t::from_msgpack / from_bson / from_cbor / from_ubjson, not strict,
\* without exceptions: trailing bytes are ignored
FromPacked(bytes, enc) ==
    IF bytes # <<>> /\ bytes[1].enc = enc THEN bytes[1].j ELSE Discarded

\* json_t parse_any(value_view_t bytes, ukv_format_t c_format, ukv_error_t*)
parse_any(bytes, c_format) ==
    IF c_format \in TextFormats
    THEN [json |-> ParseJsonBytes(bytes), error |-> NoError]
    ELSE IF c_format \in PackedFormats
    THEN [json |-> FromPacked(bytes, c_format), error |-> NoError]
    ELSE IF c_format = ukv_format_binary_k
    THEN [json |-> JBin(bytes), error |-> NoError]
    ELSE [json |-> JNull, error |-> "Unsupported input format"]

\* void dump_any(json_t const&, ukv_format_t c_format, exporter, ukv_error_t*)
dump_any(json, c_format) ==
    IF c_format \in TextFormats
    THEN [bytes |-> <<Chunk("json", DumpText(json))>>, error |-> NoError]
    ELSE IF c_format = ukv_format_bson_k
    THEN IF json.kind = "object"
         THEN [bytes |-> <<Chunk(c_format, json)>>, error |-> NoError]
         ELSE [bytes |-> <<>>, error |-> "Failed to serialize a document!"]
    ELSE IF c_format \in PackedFormats
    THEN IF json.kind = "discarded"
         THEN [bytes |-> <<>>, error |-> NoError]
         ELSE [bytes |-> <<Chunk(c_format, json)>>, error |-> NoError]
    ELSE IF c_format = ukv_format_binary_k
    THEN IF json.kind \in {"null", "discarded"}
         THEN [bytes |-> <<>>, error |-> NoError]
         ELSE IF json.kind \in {"object", "array"}
         THEN [bytes |-> <<>>,
               error |-> "Can't export a nested dictionary in binary form!"]
         ELSE IF json.kind = "binary"
         THEN [bytes |-> json.b, error |-> NoError]
         ELSE [bytes |-> <<Chunk("scalar", json)>>, error |-> NoError]
    ELSE [bytes |-> <<>>, error |-> "Unsupported output format"]

\* serializing_tape_ref_t::push_back: the entry put on the tape
push_back(doc, c_format) ==
    LET d == dump_any(doc, c_format)
    IN [entry |-> IF c_format \in TextFormats THEN Append(d.bytes, NulByte)
                  ELSE d.bytes,
        error |-> d.error]

(***************************************************************************)
(* Fields, JSON Pointers and patches.                                      *)
(***************************************************************************)
\* ukv_str_view_t field: NULL or a string
NullField == [null |-> TRUE, str |-> ""]
Field(str) == [null |-> FALSE, str |-> str]

\* the reference tokens of the pointer strings in use
PointerTokens ==
    [p \in {"", "/a", "/b", "/a/b"} |->
        IF p = "" THEN <<>>
        ELSE IF p = "/a" THEN <<"a">>
        ELSE IF p = "/b" THEN <<"b">>
        ELSE <<"a", "b">>]

\* field[0] == '/'
StartsWithSlash(str) == str \in (DOMAIN PointerTokens) \ {""}

\* json_ptr_t {field}
json_ptr_t(str) == PointerTokens[str]

RECURSIVE json_contains(_, _)
\* json_t::contains(json_pointer)
json_contains(json, ptr) ==
    IF ptr = <<>> THEN TRUE
    ELSE /\ json.kind = "object"
         /\ Head(ptr) \in DOMAIN json.m
         /\ json_contains(json.m[Head(ptr)], Tail(ptr))

RECURSIVE json_at(_, _)
\* json_t::at(json_pointer), for a pointer the value contains
json_at(json, ptr) ==
    IF ptr = <<>> THEN json ELSE json_at(json.m[Head(ptr)], Tail(ptr))

RECURSIVE AssignAt(_, _, _)
\* the document after the value that ptr refers to is assigned v
AssignAt(json, ptr, v) ==
    IF ptr = <<>> THEN v
    ELSE JObj([json.m EXCEPT ![Head(ptr)] = AssignAt(@, Tail(ptr), v)])

\* a reference into the looked-up document, or to the default object
RefInto(ptr, val) == [shared |-> FALSE, ptr |-> ptr, val |-> val]
RefDefault(val) == [shared |-> TRUE, ptr |-> <<>>, val |-> val]

\* json_t& lookup_field(json_t& json, ukv_str_view_t field, json_t& default_json)
lookup_field(json, field, default_json) ==
    IF field.null THEN RefInto(<<>>, json)
    ELSE IF StartsWithSlash(field.str)
    THEN LET field_ptr == json_ptr_t(field.str)
         IN IF json_contains(json, field_ptr) THEN RefInto(field_ptr, json_at(json, field_ptr))
            ELSE RefDefault(default_json)
    ELSE IF json.kind = "object" /\ field.str \in DOMAIN json.m
         THEN RefInto(<<field.str>>, json.m[field.str])
         ELSE RefDefault(default_json)

\* the members m with the one named n set to v
WithMember(m, n, v) ==
    [o \in (DOMAIN m) \cup {n} |-> IF o = n THEN v ELSE m[o]]

\* the members m without the one named n
WithoutMember(m, n) == [o \in (DOMAIN m) \ {n} |-> m[o]]

RECURSIVE merge_patch(_, _)
RECURSIVE MergeMembers(_, _, _)
\* the members after the members of the patch named in names are merged in
MergeMembers(m, p, names) ==
    IF names = <<>> THEN m
    ELSE LET n == Head(names)
             next == IF p[n].kind = "null" THEN WithoutMember(m, n)
                     ELSE WithMember(m, n,
                            merge_patch(IF n \in DOMAIN m THEN m[n] ELSE JNull, p[n]))
         IN MergeMembers(next, p, Tail(names))

\* json_t::merge_patch (RFC 7396)
merge_patch(target, apply_patch) ==
    IF apply_patch.kind = "object"
    THEN JObj(MergeMembers(IF target.kind = "object" THEN target.m ELSE EmptyMembers,
                           apply_patch.m, SortedNames(DOMAIN apply_patch.m)))
    ELSE apply_patch

\* the outcome of a patch: the process terminated on an exception that
\* leaves a noexcept function, or the patched value
Terminated == [crashed |-> TRUE, val |-> JNull]
Patched(val) == [crashed |-> FALSE, val |-> val]

\* one operation of a JSON Patch (operation_add, operation_remove of
\* json_t::patch) for the operations in use: an add at the root and a remove
\* of a member; every other operation is taken as one that throws
PatchOperation(result, operation) ==
    IF ~(/\ operation.kind = "object"
         /\ {"op", "path"} \subseteq DOMAIN operation.m
         /\ operation.m["op"].kind = "string"
         /\ operation.m["path"].kind = "string"
         /\ operation.m["path"].s \in DOMAIN PointerTokens)
    THEN Terminated
    ELSE LET op == operation.m["op"].s
             ptr == json_ptr_t(operation.m["path"].s)
             parent_ptr == SubSeq(ptr, 1, Len(ptr) - 1)
         IN IF op = "add" /\ "value" \in DOMAIN operation.m /\ ptr = <<>>
            THEN Patched(operation.m["value"])
            ELSE IF op = "remove" /\ ptr # <<>> /\ json_contains(result, parent_ptr)
            THEN LET parent == json_at(result, parent_ptr)
                     last_path == ptr[Len(ptr)]
                 IN IF parent.kind = "object"
                    THEN IF last_path \in DOMAIN parent.m
                         THEN Patched(AssignAt(result, parent_ptr,
                                        JObj(WithoutMember(parent.m, last_path))))
                         ELSE Terminated
                    ELSE IF parent.kind = "array" THEN Terminated
                    ELSE Patched(result)
            ELSE Terminated

RECURSIVE PatchOperations(_, _)
PatchOperations(result, ops) ==
    IF ops = <<>> THEN Patched(result)
    ELSE LET r == PatchOperation(result, Head(ops))
         IN IF r.crashed THEN r ELSE PatchOperations(r.val, Tail(ops))

\* json_t::patch (RFC 6902): throws unless the patch is an array of operations
patch(target, json_patch) ==
    IF json_patch.kind # "array" THEN Terminated
    ELSE PatchOperations(target, json_patch.a)

(***************************************************************************)
(* Batches.  A read batch is a sequence of keys; a write batch a sequence  *)
(* of tasks [key, val]; the fields argument is a strided array.            *)
(***************************************************************************)
\* the fields argument: no array, one field repeated, or a field per task
NoFields == [ptr |-> "null", stride |-> 0, items |-> <<>>]
RepeatedField(f) == [ptr |-> "data", stride |-> 0, items |-> <<f>>]
FieldPerTask(fs) == [ptr |-> "data", stride |-> 1, items |-> fs]

\* fields[task_idx], NULL when there is no array
FieldAt(fields, task_idx) ==
    IF fields.ptr = "null" THEN NullField
    ELSE IF fields.stride = 0 THEN fields.items[1]
    ELSE fields.items[task_idx]

\* fields && (!fields.repeats() || *fields)
HasFields(fields) ==
    /\ fields.ptr # "null"
    /\ fields.stride # 0 \/ ~fields.items[1].null

\* the fields argument of a call for the task task_idx alone
FieldsOfTask(fields, task_idx) ==
    IF fields.ptr = "null" THEN fields
    ELSE [fields EXCEPT !.items = <<FieldAt(fields, task_idx)>>]

KeysOf(tasks) == [i \in 1..Len(tasks) |-> tasks[i].key]

\* task.view(): the bytes of the value of a write task, none when deleted
ViewOfTask(task) ==
    IF task.val.ptr = "null" THEN <<>>
    ELSE SubSeq(task.val.bytes, 1, task.val.len)

\* ukv_t c_db: the contents behind the handle; the NULL handle has none
NullDb == <<>>
DbIsNull == "DataBase is NULL!"

\* ukv_read of a batch: the found values in task order; with the NULL handle
\* an error and nothing read
ukv_read_batch(h, tx, t, keys, track) ==
    LET step[i \in 0..Len(keys)] ==
            IF i = 0 THEN [vals |-> <<>>, txn |-> tx, error |-> NoError]
            ELSE LET Found(before, r) ==
                         [vals |-> Append(before.vals, [len |-> r.len, bytes |-> r.bytes]),
                          txn |-> r.txn, error |-> NoError]
                 IN Found(step[i-1], ukv_read(h, step[i-1].txn, t, keys[i], track))
    IN IF h = NullDb THEN [vals |-> <<>>, txn |-> tx, error |-> DbIsNull]
       ELSE step[Len(keys)]

\* ukv_write of a batch: the tasks take effect in task order; with the NULL
\* handle an error and nothing written
ukv_write_batch(h, tx, t, keys, vals) ==
    LET step[i \in 0..Len(keys)] ==
            IF i = 0 THEN [head |-> h, txn |-> tx]
            ELSE ukv_write(step[i-1].head, step[i-1].txn, t, keys[i], vals[i])
        Done(w) == [head |-> w.head, txn |-> w.txn, error |-> NoError]
    IN IF h = NullDb THEN [head |-> h, txn |-> tx, error |-> DbIsNull]
       ELSE Done(step[Len(keys)])

\* all_ascending: every key is below the next one
all_ascending(keys) == \A i \in 1..(Len(keys) - 1) : keys[i] < keys[i+1]

RECURSIVE SortedKeys(_)
SortedKeys(ks) ==
    IF ks = {} THEN <<>>
    ELSE LET least == CHOOSE k \in ks : \A o \in ks : k <= o
         IN <<least>> \o SortedKeys(ks \ {least})

\* sort_and_deduplicate: the distinct keys in ascending order
sort_and_deduplicate(keys) == SortedKeys(Range(keys))

\* offset_in_sorted: the position of a key among the sorted ones
offset_in_sorted(sorted, key) == CHOOSE i \in 1..Len(sorted) : sorted[i] = key

\* the bytes of a found value; a missing one has none
FoundBytes(found) ==
    IF found.len = ukv_val_len_missing_k THEN <<>>
    ELSE SubSeq(found.bytes, 1, found.len)

(***************************************************************************)
(* The read pipeline.  The callback of a caller takes the progress of the  *)
(* call (tape, error, termination), the task index, the field and the      *)
(* parsed document, and gives the progress after it, with the document as  *)
(* it left it in field doc.                                                *)
(***************************************************************************)
FreshProgress == [tape |-> <<>>, error |-> NoError, crashed |-> FALSE, doc |-> JNull]

\* the callback of ukv_docs_read: the looked-up part goes onto the tape in
\* the requested format
docs_read_callback(before, field, parsed, c_format) ==
    LET Pushed(parsed_part, pushed) ==
            [before EXCEPT !.tape = Append(@, pushed.entry),
                           !.error = IF pushed.error # NoError THEN pushed.error ELSE @,
                           !.doc = parsed]
        Found(parsed_part) == Pushed(parsed_part, push_back(parsed_part, c_format))
    IN Found(lookup_field(parsed, field, JNull).val)

\* the callback of read_modify_write: parse the task, apply it to the
\* looked-up part of the document, put that part onto the tape
rmw_callback(before, task, field, parsed, c_format) ==
    LET Saved(ref, applied, pushed) ==
            [before EXCEPT
               !.tape = Append(@, pushed.entry),
               !.error = IF pushed.error # NoError THEN pushed.error ELSE @,
               !.doc = IF ref.shared THEN parsed
                       ELSE AssignAt(parsed, ref.ptr, applied.val)]
        Applied(ref, applied) ==
            IF applied.crashed
            THEN [before EXCEPT !.crashed = TRUE, !.doc = parsed]
            ELSE Saved(ref, applied, push_back(applied.val, internal_format_k))
        Found(parsed_task, ref) ==
            Applied(ref, IF c_format = ukv_format_json_patch_k
                         THEN patch(ref.val, parsed_task.json)
                         ELSE IF c_format = ukv_format_json_merge_patch_k
                         THEN Patched(merge_patch(ref.val, parsed_task.json))
                         ELSE Patched(parsed_task.json))
        Parsed(parsed_task) ==
            IF parsed_task.error # NoError
            THEN [before EXCEPT !.error = parsed_task.error, !.doc = parsed]
            ELSE IF before.error # NoError
            THEN [before EXCEPT !.doc = parsed]
            ELSE Found(parsed_task, lookup_field(parsed, field, JNull))
    IN Parsed(parse_any(ViewOfTask(task), c_format))

\* a callback handed to read_docs: the lambda of ukv_docs_read or the one of
\* read_modify_write, with what it captured
safe_callback(callback, before, task_idx, field, parsed) ==
    IF callback.of = "ukv_docs_read"
    THEN docs_read_callback(before, field, parsed, callback.c_format)
    ELSE rmw_callback(before, callback.tasks[task_idx], field, parsed, callback.c_format)

\* read_unique_docs: one substrate read of the tasks as given, then per task
\* parse, stop on an error, call back
read_unique_docs(h, tx, c_txn, keys, fields, c_options, callback) ==
    LET Read(binary_docs) ==
            LET loop[task_idx \in 0..Len(keys)] ==
                    IF task_idx = 0 THEN FreshProgress
                    ELSE LET Task(before, parsed) ==
                                 IF before.crashed \/ before.error # NoError THEN before
                                 ELSE IF parsed.error # NoError
                                 THEN [before EXCEPT !.error = parsed.error]
                                 ELSE safe_callback(callback, before, task_idx,
                                                    FieldAt(fields, task_idx), parsed.json)
                         IN Task(loop[task_idx - 1],
                                 parse_any(FoundBytes(binary_docs.vals[task_idx]),
                                           internal_format_k))
            IN [progress |-> loop[Len(keys)],
                order |-> keys,
                seen |-> <<keys>>,
                txn |-> binary_docs.txn]
    IN Read(ukv_read_batch(h, tx, c_txn, keys, c_options.track))

\* read_docs: ascending keys, or keys found distinct after sorting a copy,
\* are read as given; otherwise the distinct keys are read in ascending
\* order and every task is joined with its document by binary search
read_docs(h, tx, c_txn, keys, fields, c_options, callback) ==
    LET updated_keys == sort_and_deduplicate(keys)
        Joined(binary_docs, parsed_all) ==
            LET join[task_idx \in 0..Len(keys)] ==
                    IF task_idx = 0
                    THEN [progress |-> FreshProgress, parsed_docs |-> parsed_all.parsed_docs]
                    ELSE LET Called(before, parsed_idx, after) ==
                                 [progress |-> after,
                                  parsed_docs |->
                                     [before.parsed_docs EXCEPT ![parsed_idx] = after.doc]]
                             Task(before, parsed_idx) ==
                                 IF before.progress.crashed THEN before
                                 ELSE Called(before, parsed_idx,
                                             safe_callback(callback, before.progress, task_idx,
                                                           FieldAt(fields, task_idx),
                                                           before.parsed_docs[parsed_idx]))
                         IN Task(join[task_idx - 1],
                                 offset_in_sorted(updated_keys, keys[task_idx]))
            IN IF parsed_all.error # NoError
               THEN [progress |-> [FreshProgress EXCEPT !.error = parsed_all.error],
                     order |-> keys,
                     seen |-> <<updated_keys>>,
                     txn |-> binary_docs.txn]
               ELSE [progress |-> join[Len(keys)].progress,
                     order |-> updated_keys,
                     seen |-> <<updated_keys>>,
                     txn |-> binary_docs.txn]
        Read(binary_docs) ==
            LET parse[doc_idx \in 0..Len(updated_keys)] ==
                    IF doc_idx = 0
                    THEN [parsed_docs |-> [i \in 1..Len(keys) |-> JNull], error |-> NoError]
                    ELSE LET Doc(before, parsed) ==
                                 IF before.error # NoError THEN before
                                 ELSE [parsed_docs |->
                                          [before.parsed_docs EXCEPT ![doc_idx] = parsed.json],
                                       error |-> parsed.error]
                         IN Doc(parse[doc_idx - 1],
                                parse_any(FoundBytes(binary_docs.vals[doc_idx]),
                                          internal_format_k))
            IN Joined(binary_docs, parse[Len(updated_keys)])
    IN IF all_ascending(keys)
       THEN read_unique_docs(h, tx, c_txn, keys, fields, c_options, callback)
       ELSE IF Len(updated_keys) = Len(keys)
       THEN read_unique_docs(h, tx, c_txn, keys, fields, c_options, callback)
       ELSE Read(ukv_read_batch(h, tx, c_txn, updated_keys, c_options.track))

(***************************************************************************)
(* ukv_docs_read                                                           *)
(***************************************************************************)
\* the outputs of a read: per tape entry its length and bytes
TapeView(tape) == [i \in 1..Len(tape) |-> [len |-> Len(tape[i]), bytes |-> tape[i]]]

\* ukv_docs_read joining every task with the document at its own index
ukv_docs_read_JoinByTaskIndex(h, tx, c_txn, keys, fields, c_options, c_format) ==
    LET callback == [of |-> "ukv_docs_read", c_format |-> c_format]
        updated_keys == sort_and_deduplicate(keys)
        unique == IF all_ascending(keys) THEN keys ELSE keys
        binary_docs == ukv_read_batch(h, tx, c_txn, updated_keys, c_options.track)
        parsed_docs == [doc_idx \in 1..Len(keys) |->
            IF doc_idx <= Len(updated_keys)
            THEN parse_any(FoundBytes(binary_docs.vals[doc_idx]), internal_format_k).json
            ELSE JNull]
        join[task_idx \in 0..Len(keys)] ==
            IF task_idx = 0 THEN FreshProgress
            ELSE safe_callback(callback, join[task_idx - 1], task_idx,
                               FieldAt(fields, task_idx), parsed_docs[task_idx])
        r == IF all_ascending(keys) \/ Len(updated_keys) = Len(keys)
             THEN read_unique_docs(h, tx, c_txn, unique, fields, c_options, callback)
             ELSE [progress |-> join[Len(keys)], seen |-> <<updated_keys>>,
                   txn |-> binary_docs.txn]
    IN IF ~HasFields(fields) /\ c_format = internal_format_k
       THEN LET passed == ukv_read_batch(h, tx, c_txn, keys, c_options.track)
            IN [outs |-> passed.vals, error |-> NoError, seen |-> <<keys>>,
                txn |-> passed.txn]
       ELSE [outs |-> TapeView(r.progress.tape), error |-> r.progress.error,
             seen |-> r.seen, txn |-> r.txn]

\* ukv_docs_read sorting also the keys it found distinct before it reads them
ukv_docs_read_SortDistinct(h, tx, c_txn, keys, fields, c_options, c_format) ==
    LET callback == [of |-> "ukv_docs_read", c_format |-> c_format]
        updated_keys == sort_and_deduplicate(keys)
        unique == IF all_ascending(keys) THEN keys ELSE updated_keys
        binary_docs == ukv_read_batch(h, tx, c_txn, updated_keys, c_options.track)
        parsed_docs == [doc_idx \in 1..Len(keys) |->
            IF doc_idx <= Len(updated_keys)
            THEN parse_any(FoundBytes(binary_docs.vals[doc_idx]), internal_format_k).json
            ELSE JNull]
        join[task_idx \in 0..Len(keys)] ==
            IF task_idx = 0 THEN FreshProgress
            ELSE safe_callback(callback, join[task_idx - 1], task_idx,
                               FieldAt(fields, task_idx), parsed_docs[offset_in_sorted(updated_keys, keys[task_idx])])
        r == IF all_ascending(keys) \/ Len(updated_keys) = Len(keys)
             THEN read_unique_docs(h, tx, c_txn, unique, fields, c_options, callback)
             ELSE [progress |-> join[Len(keys)], seen |-> <<updated_keys>>,
                   txn |-> binary_docs.txn]
    IN IF ~HasFields(fields) /\ c_format = internal_format_k
       THEN LET passed == ukv_read_batch(h, tx, c_txn, keys, c_options.track)
            IN [outs |-> passed.vals, error |-> NoError, seen |-> <<keys>>,
                txn |-> passed.txn]
       ELSE [outs |-> TapeView(r.progress.tape), error |-> r.progress.error,
             seen |-> r.seen, txn |-> r.txn]

\* ukv_docs_read
ukv_docs_read(h, tx, c_txn, keys, fields, c_options, c_format) ==
    LET Passed(r) ==
            [outs |-> r.vals, error |-> r.error,
             seen |-> IF r.error = NoError THEN <<keys>> ELSE <<>>, txn |-> r.txn]
        Serialized(r) ==
            [outs |-> TapeView(r.progress.tape),
             error |-> r.progress.error,
             seen |-> r.seen,
             txn |-> r.txn]
    IN IF ~HasFields(fields) /\ c_format = internal_format_k
       THEN Passed(ukv_read_batch(h, tx, c_txn, keys, c_options.track))
       ELSE IF h = NullDb
       THEN [outs |-> <<>>, error |-> DbIsNull, seen |-> <<>>, txn |-> tx]
       ELSE Serialized(read_docs(h, tx, c_txn, keys, fields, c_options,
                                 [of |-> "ukv_docs_read", c_format |-> c_format]))

(***************************************************************************)
(* ukv_docs_write.  An outcome of a write call: the content, whether the   *)
(* substrate write was issued, the error, and whether the process was      *)
(* terminated.                                                             *)
(***************************************************************************)
WriteOutcome(h, tx, issued, error, crashed) ==
    [head |-> h, txn |-> tx, issued |-> issued, error |-> error, crashed |-> crashed]

\* replace_docs storing the payload as given, not in the internal format
replace_docs_StoreAsGiven(h, tx, c_txn, tasks, fields, c_options, c_format) ==
    LET loop[doc_idx \in 0..Len(tasks)] ==
            IF doc_idx = 0 THEN [updated_vals |-> <<>>, error |-> NoError]
            ELSE LET before == loop[doc_idx - 1]
                     task == tasks[doc_idx]
                     parsed == parse_any(ViewOfTask(task), c_format)
                     serialized == dump_any(parsed.json, internal_format_k)
                 IN IF before.error # NoError THEN before
                    ELSE IF task.val.ptr = "null"
                    THEN [before EXCEPT !.updated_vals = Append(@, NullArg)]
                    ELSE IF parsed.error # NoError
                    THEN [before EXCEPT !.error = parsed.error]
                    ELSE IF parsed.json.kind = "discarded"
                    THEN [before EXCEPT !.error = "Couldn't parse inputs"]
                    ELSE IF serialized.error # NoError
                    THEN [before EXCEPT !.error = serialized.error]
                    ELSE [before EXCEPT !.updated_vals = Append(@, task.val)]
        done == loop[Len(tasks)]
    IN IF done.error # NoError
       THEN {WriteOutcome(h, tx, FALSE, done.error, FALSE)}
       ELSE LET w == ukv_write_batch(h, tx, c_txn, KeysOf(tasks), done.updated_vals)
            IN {WriteOutcome(w.head, w.txn, TRUE, NoError, FALSE)}

\* replace_docs
replace_docs(h, tx, c_txn, tasks, fields, c_options, c_format) ==
    LET loop[doc_idx \in 0..Len(tasks)] ==
            IF doc_idx = 0 THEN [updated_vals |-> <<>>, error |-> NoError]
            ELSE LET Dumped(before, serialized) ==
                         IF serialized.error # NoError
                         THEN [before EXCEPT !.error = serialized.error]
                         ELSE [before EXCEPT
                                 !.updated_vals = Append(@, DataArg(serialized.bytes))]
                     Doc(before, task, parsed) ==
                         IF before.error # NoError THEN before
                         ELSE IF task.val.ptr = "null"
                         THEN [before EXCEPT !.updated_vals = Append(@, NullArg)]
                         ELSE IF parsed.error # NoError
                         THEN [before EXCEPT !.error = parsed.error]
                         ELSE IF parsed.json.kind = "discarded"
                         THEN [before EXCEPT !.error = "Couldn't parse inputs"]
                         ELSE Dumped(before, dump_any(parsed.json, internal_format_k))
                 IN Doc(loop[doc_idx - 1], tasks[doc_idx],
                        parse_any(ViewOfTask(tasks[doc_idx]), c_format))
        Written(w) == {WriteOutcome(w.head, w.txn, TRUE, NoError, FALSE)}
        Parsed(done) ==
            IF done.error # NoError
            THEN {WriteOutcome(h, tx, FALSE, done.error, FALSE)}
            ELSE Written(ukv_write_batch(h, tx, c_txn, KeysOf(tasks), done.updated_vals))
    IN Parsed(loop[Len(tasks)])

\* what a write task read from beyond the end of the tape may hold
BeyondTape == {NullArg, DataArg(<<>>), DataArg(GarbageBytes)}

\* the value arguments the final write of read_modify_write takes from the
\* tape: entry i for the i-th key, whatever lies there when the tape is
\* shorter
TapeArgs(tape, count) ==
    {vals \in [1..count -> {DataArg(tape[i]) : i \in 1..Len(tape)} \cup BeyondTape] :
        \A i \in 1..count :
            IF i <= Len(tape) THEN vals[i] = DataArg(tape[i])
            ELSE vals[i] \in BeyondTape}

\* read_modify_write: the documents are read, every task is applied by the
\* callback, and the tape is written under the keys read_docs returned
read_modify_write(h, tx, c_txn, tasks, fields, c_options, c_format) ==
    LET Written(w, error) == WriteOutcome(w.head, w.txn, TRUE, error, FALSE)
        Modified(read_order, progress) ==
            IF progress.crashed
            THEN {WriteOutcome(h, read_order.txn, FALSE, progress.error, TRUE)}
            ELSE {Written(ukv_write_batch(h, read_order.txn, c_txn, read_order.order, vals),
                          progress.error) :
                    vals \in TapeArgs(progress.tape, Len(read_order.order))}
        Read(read_order) == Modified(read_order, read_order.progress)
    IN Read(read_docs(h, tx, c_txn, KeysOf(tasks), fields, c_options,
                      [of |-> "read_modify_write", tasks |-> tasks,
                       c_format |-> c_format]))

\* ukv_docs_write merging a payload written without a field into the stored
\* document instead of replacing it
ukv_docs_write_MergeWhole(h, tx, c_txn, tasks, fields, c_options, c_format) ==
    IF ~HasFields(fields) /\ c_format = internal_format_k
    THEN LET w == ukv_write_batch(h, tx, c_txn, KeysOf(tasks),
                                  [i \in 1..Len(tasks) |-> tasks[i].val])
         IN {WriteOutcome(w.head, w.txn, TRUE, NoError, FALSE)}
    ELSE IF \/ HasFields(fields)
            \/ c_format = ukv_format_json_patch_k
            \/ c_format = ukv_format_json_merge_patch_k
    THEN read_modify_write(h, tx, c_txn, tasks, fields, c_options, c_format)
    ELSE read_modify_write(h, tx, c_txn, tasks, fields, c_options,
                           IF c_format = ukv_format_json_k
                           THEN ukv_format_json_merge_patch_k ELSE c_format)

\* ukv_docs_write handing a call with the NULL handle to replace_docs
\* without a look at the handle
ukv_docs_write_NullUnchecked(h, tx, c_txn, tasks, fields, c_options, c_format) ==
    IF ~HasFields(fields) /\ c_format = internal_format_k
    THEN LET w == ukv_write_batch(h, tx, c_txn, KeysOf(tasks),
                                  [i \in 1..Len(tasks) |-> tasks[i].val])
         IN {WriteOutcome(w.head, w.txn, w.error = NoError, w.error, FALSE)}
    ELSE IF h = NullDb \/ ~(\/ HasFields(fields)
                            \/ c_format = ukv_format_json_patch_k
                            \/ c_format = ukv_format_json_merge_patch_k)
    THEN replace_docs(h, tx, c_txn, tasks, fields, c_options, c_format)
    ELSE read_modify_write(h, tx, c_txn, tasks, fields, c_options, c_format)

\* ukv_docs_write storing a merge patch written without a field in place of
\* the document
ukv_docs_write_PatchReplaces(h, tx, c_txn, tasks, fields, c_options, c_format) ==
    IF ~HasFields(fields) /\ c_format = internal_format_k
    THEN LET w == ukv_write_batch(h, tx, c_txn, KeysOf(tasks),
                                  [i \in 1..Len(tasks) |-> tasks[i].val])
         IN {WriteOutcome(w.head, w.txn, TRUE, NoError, FALSE)}
    ELSE IF HasFields(fields) \/ c_format = ukv_format_json_patch_k
    THEN read_modify_write(h, tx, c_txn, tasks, fields, c_options, c_format)
    ELSE replace_docs(h, tx, c_txn, tasks, fields, c_options, c_format)

\* ukv_docs_write
ukv_docs_write(h, tx, c_txn, tasks, fields, c_options, c_format) ==
    LET Written(w) ==
            {WriteOutcome(w.head, w.txn, w.error = NoError, w.error, FALSE)}
    IN IF ~HasFields(fields) /\ c_format = internal_format_k
       THEN Written(ukv_write_batch(h, tx, c_txn, KeysOf(tasks),
                                    [i \in 1..Len(tasks) |-> tasks[i].val]))
       ELSE IF h = NullDb
       THEN {WriteOutcome(h, tx, FALSE, DbIsNull, FALSE)}
       ELSE IF \/ HasFields(fields)
               \/ c_format = ukv_format_json_patch_k
               \/ c_format = ukv_format_json_merge_patch_k
       THEN read_modify_write(h, tx, c_txn, tasks, fields, c_options, c_format)
       ELSE replace_docs(h, tx, c_txn, tasks, fields, c_options, c_format)

(***************************************************************************)
(* Tabular gather                                                          *)
(***************************************************************************)
\* ukv_type_t: the requested type of a column
ukv_type_bool_k == "bool"
ukv_type_str_k == "str"
ukv_type_bin_k == "bin"
ukv_type_f16_k == "f16"
SignedTypes == {"i8", "i16", "i32", "i64"}
UnsignedTypes == {"u8", "u16", "u32", "u64"}
FloatTypes == {"f32", "f64"}

\* min_memory_usage, which is sizeof(scalar_at) for the scalar types
min_memory_usage(type) ==
    IF type \in {"bool", "i8", "u8"} THEN 1
    ELSE IF type \in {"i16", "u16", "f16"} THEN 2
    ELSE IF type \in {"i32", "u32", "f32"} THEN 4
    ELSE IF type \in {"i64", "u64", "f64", "bin", "str"} THEN 8
    ELSE 0

CHAR_BIT == 8

\* json_t::type() with every integer taken as number_integer
value_type_SignedOnly(value) ==
    IF value.kind = "number" THEN "number_integer" ELSE value.kind

\* json_t::type(): a number read from text or msgpack is number_unsigned
\* when it is a non-negative integer and number_integer when negative
value_type(value) ==
    IF value.kind = "number"
    THEN IF value.n < 0 THEN "number_integer" ELSE "number_unsigned"
    ELSE value.kind

\* a cell of a scalar column: a boolean or integer n, a floating-point
\* number n / 10 * 10^e, or bytes that were never written or copied as they
\* are ("raw")
Scalar(as, n, e) == [as |-> as, n |-> n, e |-> e, b |-> <<>>]
\* sizeof(scalar_at) bytes copied into a cell
CopiedBytes(b) == [as |-> "bytes", n |-> 0, e |-> 0, b |-> b]

\* ref |= mask and ref &= ~mask on one byte of a bitmap
OrMask(byte, mask) == IF (byte \div mask) % 2 = 1 THEN byte ELSE byte + mask
AndNotMask(byte, mask) == IF (byte \div mask) % 2 = 1 THEN byte - mask ELSE byte

\* the flag updates with the documents of a byte counted from its most
\* significant bit
SetFlags_MsbFirst(mem, column, doc_idx, valid, convert, collide) ==
    LET mask_bitmap == 2 ^ (7 - (doc_idx % CHAR_BIT))
        slot == doc_idx \div CHAR_BIT
        Put(byte, on) == IF on THEN OrMask(byte, mask_bitmap)
                         ELSE AndNotMask(byte, mask_bitmap)
        Valid(b) == [b EXCEPT ![column.validities + slot] = Put(@, valid)]
        Collide(b) == Valid([b EXCEPT ![column.collisions + slot] = Put(@, collide)])
        Convert(b) == Collide([b EXCEPT ![column.conversions + slot] = Put(@, convert)])
    IN [mem EXCEPT !.bitmaps = Convert(@)]

\* the three flag updates every case of an export makes for its cell: the
\* conversion, collision and validity bits of document doc_idx
SetFlags(mem, column, doc_idx, valid, convert, collide) ==
    LET mask_bitmap == (2 ^ (doc_idx % CHAR_BIT)) % 256
        slot == doc_idx \div CHAR_BIT
        Put(byte, on) == IF on THEN OrMask(byte, mask_bitmap)
                         ELSE AndNotMask(byte, mask_bitmap)
        Valid(b) == [b EXCEPT ![column.validities + slot] = Put(@, valid)]
        Collide(b) == Valid([b EXCEPT ![column.collisions + slot] = Put(@, collide)])
        Convert(b) == Collide([b EXCEPT ![column.conversions + slot] = Put(@, convert)])
    IN [mem EXCEPT !.bitmaps = Convert(@)]

\* the strings of the documents that are numbers in full, and those that
\* start with one
IntText == [s \in {"7", "-7"} |-> IF s = "7" THEN 7 ELSE -7]
IntPrefix == [s \in {"7.5"} |-> 7]
FloatText ==
    [s \in {"7", "-7", "7.5"} |->
        IF s = "7" THEN 70 ELSE IF s = "-7" THEN -70 ELSE 75]
StrChars ==
    [s \in {"7", "-7", "7.5", "x", "true"} |->
        IF s = "7" THEN <<"7">>
        ELSE IF s = "-7" THEN <<"-", "7">>
        ELSE IF s = "7.5" THEN <<"7", ".", "5">>
        ELSE IF s = "x" THEN <<"x">>
        ELSE <<"t", "r", "u", "e">>]

\* static_cast<scalar_at> of an integer; the integers of the documents are
\* inside every signed range and every unsigned range of 32 bits and more,
\* a negative one converted to u32 or u64 is n + 2^e
CastInteger(n, scalar_at) ==
    IF scalar_at = ukv_type_bool_k THEN Scalar("bool", IF n = 0 THEN 0 ELSE 1, 0)
    ELSE IF scalar_at \in FloatTypes THEN Scalar("float", n * 10, 0)
    ELSE IF scalar_at \in {"u8", "u16"}
    THEN Scalar("int", n % (2 ^ (8 * min_memory_usage(scalar_at))), 0)
    ELSE IF scalar_at \in UnsignedTypes /\ n < 0
    THEN Scalar("int", n, 8 * min_memory_usage(scalar_at))
    ELSE Scalar("int", n, 0)

\* the largest power of ten a float holds
f32_max_exponent10 == 38

\* static_cast<scalar_at> of a floating-point number; a value outside the
\* range of scalar_at is undefined behaviour, for which the build stores
\* build.overflow
CastFloat(value, scalar_at, build) ==
    IF scalar_at = "f64" THEN Scalar("float", value.tenths, value.exp10)
    ELSE IF scalar_at = ukv_type_bool_k
    THEN Scalar("bool", IF value.tenths = 0 THEN 0 ELSE 1, 0)
    ELSE IF scalar_at = "f32"
    THEN IF value.exp10 > f32_max_exponent10 THEN Scalar("raw", build.overflow, 0)
         ELSE Scalar("float", value.tenths, value.exp10)
    ELSE IF value.exp10 > 0 THEN Scalar("raw", build.overflow, 0)
    ELSE IF value.tenths >= 0 THEN CastInteger(value.tenths \div 10, scalar_at)
    ELSE CastInteger(-((-value.tenths) \div 10), scalar_at)

\* std::from_chars(str.data(), str.data() + str.size(), ref_scalar): whether
\* the whole string was consumed without an error, and what was stored
from_chars(str, scalar_at, ref_scalar) ==
    IF scalar_at = ukv_type_bool_k
    THEN IF str \in {"true", "false"}
         THEN [entire |-> TRUE, scalar |-> Scalar("bool", IF str = "true" THEN 1 ELSE 0, 0)]
         ELSE [entire |-> FALSE, scalar |-> ref_scalar]
    ELSE IF scalar_at \in FloatTypes
    THEN IF str \in DOMAIN FloatText
         THEN [entire |-> TRUE, scalar |-> Scalar("float", FloatText[str], 0)]
         ELSE [entire |-> FALSE, scalar |-> Scalar("float", 0, 0)]
    ELSE IF str \in DOMAIN IntText /\ (IntText[str] >= 0 \/ scalar_at \in SignedTypes)
    THEN [entire |-> TRUE, scalar |-> Scalar("int", IntText[str], 0)]
    ELSE IF str \in DOMAIN IntPrefix
    THEN [entire |-> FALSE, scalar |-> Scalar("int", IntPrefix[str], 0)]
    ELSE [entire |-> FALSE, scalar |-> ref_scalar]

\* export_scalar_column<scalar_at>
export_scalar_column(scalar_at, value, doc_idx, column, mem, build) ==
    LET Stored(ref_scalar) ==
            [mem EXCEPT !.scalars[column.field][doc_idx + 1] = ref_scalar]
        Parsed(result) ==
            SetFlags(Stored(result.scalar), column, doc_idx,
                     result.entire, result.entire, ~result.entire)
        type == value_type(value)
    IN IF type = "null"
       THEN SetFlags(mem, column, doc_idx, FALSE, FALSE, FALSE)
       ELSE IF type \in {"discarded", "object", "array"}
       THEN SetFlags(mem, column, doc_idx, FALSE, FALSE, TRUE)
       ELSE IF type = "binary"
       THEN IF Len(value.b) = min_memory_usage(scalar_at)
            THEN SetFlags(Stored(CopiedBytes(value.b)), column, doc_idx,
                          TRUE, TRUE, FALSE)
            ELSE SetFlags(mem, column, doc_idx, FALSE, FALSE, TRUE)
       ELSE IF type = "string"
       THEN Parsed(from_chars(value.s, scalar_at,
                              mem.scalars[column.field][doc_idx + 1]))
       ELSE IF type = "boolean"
       THEN SetFlags(Stored(CastInteger(IF value.b THEN 1 ELSE 0, scalar_at)),
                     column, doc_idx, TRUE, scalar_at # ukv_type_bool_k, FALSE)
       ELSE IF type = "number_integer"
       THEN SetFlags(Stored(CastInteger(value.n, scalar_at)), column, doc_idx,
                     TRUE, ~(scalar_at \in SignedTypes), FALSE)
       ELSE IF type = "number_unsigned"
       THEN SetFlags(Stored(CastInteger(value.n, scalar_at)), column, doc_idx,
                     TRUE,
                     ~(scalar_at \in UnsignedTypes \cup {ukv_type_bool_k}),
                     FALSE)
       ELSE SetFlags(Stored(CastFloat(value, scalar_at, build)), column, doc_idx,
                     TRUE, ~(scalar_at \in FloatTypes), FALSE)

RECURSIVE Digits(_)
\* the decimal digits of a natural number
Digits(n) ==
    IF n < 10 THEN <<n>> ELSE Append(Digits(n \div 10), n % 10)

\* the length of the buffer numbers are printed in
print_buf_len_k == 32

\* what "%f" prints for a floating-point number, in full: the digits of the
\* whole part, the point and six digits
snprintf_f(value) ==
    LET mag == IF value.tenths >= 0 THEN value.tenths ELSE -value.tenths
    IN (IF value.tenths < 0 THEN <<"-">> ELSE <<>>)
       \o (IF value.exp10 = 0
           THEN Digits(mag \div 10) \o <<".", mag % 10, 0, 0, 0, 0, 0>>
           ELSE Digits(mag) \o [i \in 1..(value.exp10 - 1) |-> 0]
                \o <<".", 0, 0, 0, 0, 0, 0>>)

\* std::to_chars of an integer, and the std::to_chars of this file for a
\* floating-point number, which prints "%f" with snprintf and returns the
\* position of the last character it needed: the characters and the
\* position result.ptr, counted from print_buf
to_chars(value) ==
    IF value_type(value) = "number_float"
    THEN LET text == snprintf_f(value)
             needed == Len(text)
         IN [chars |-> IF needed < print_buf_len_k THEN text
                       ELSE SubSeq(text, 1, print_buf_len_k - 1),
             ptr |-> needed - 1]
    ELSE LET text == (IF value.n < 0 THEN <<"-">> ELSE <<>>)
                     \o Digits(IF value.n < 0 THEN -value.n ELSE value.n)
         IN [chars |-> text, ptr |-> Len(text)]

\* print_scalar: the characters put on the output with a NUL after them, or
\* the missing length when they do not fit the buffer with the NUL
print_scalar(scalar, output) ==
    LET Printed(result) ==
            IF result.ptr + 1 < print_buf_len_k
            THEN [len |-> result.ptr + 1,
                  output |-> output \o SubSeq(result.chars, 1, result.ptr) \o <<"NUL">>]
            ELSE [len |-> ukv_val_len_missing_k, output |-> output]
    IN Printed(to_chars(scalar))

\* export_string_column
export_string_column(value, doc_idx, column, mem) ==
    LET type == value_type(value)
        Cell(m, off, len) ==
            [m EXCEPT !.str_offsets[column.field][doc_idx + 1] = off,
                      !.str_lengths[column.field][doc_idx + 1] = len]
        ref_off == Len(mem.output)
        Written(len, chars) ==
            Cell([mem EXCEPT !.output = @ \o chars], ref_off, len)
        Number(printed) ==
            SetFlags(Cell([mem EXCEPT !.output = printed.output], ref_off, printed.len),
                     column, doc_idx,
                     printed.len # ukv_val_len_missing_k, TRUE,
                     printed.len = ukv_val_len_missing_k)
    IN IF type = "null"
       THEN SetFlags(Cell(mem, ukv_val_len_missing_k, ukv_val_len_missing_k),
                     column, doc_idx, FALSE, FALSE, FALSE)
       ELSE IF type \in {"discarded", "object", "array"}
       THEN SetFlags(Cell(mem, ukv_val_len_missing_k, ukv_val_len_missing_k),
                     column, doc_idx, FALSE, FALSE, TRUE)
       ELSE IF type = "binary"
       THEN SetFlags(Written(Len(value.b), value.b), column, doc_idx,
                     TRUE, FALSE, FALSE)
       ELSE IF type = "string"
       THEN SetFlags(Written(Len(StrChars[value.s]), StrChars[value.s] \o <<"NUL">>),
                     column, doc_idx, TRUE, FALSE, FALSE)
       ELSE IF type = "boolean"
       THEN SetFlags(IF value.b
                     THEN Written(5, <<"t", "r", "u", "e", "NUL">>)
                     ELSE Written(6, <<"f", "a", "l", "s", "e", "NUL">>),
                     column, doc_idx, TRUE, TRUE, FALSE)
       ELSE Number(print_scalar(value, mem.output))

\* parse_fields: a NULL field is an error
parse_fields(fields) ==
    IF \E i \in 1..Len(fields) : fields[i].null
    THEN "NULL JSON-Pointers are not allowed!" ELSE NoError

\* the memory ukv_docs_gather prepares: the bitmaps of all columns in one
\* block (validities, conversions, collisions, a column after another), and
\* per column the scalars or the string offsets and lengths; what it was
\* not yet written holds is up to the build
PreparedMemory(docs_count, fields_count, build) ==
    LET slots_per_bitmap ==
            docs_count \div 8 + (IF docs_count % 8 # 0 THEN 1 ELSE 0)
    IN [bitmaps |-> [i \in 1..(slots_per_bitmap * 3 * fields_count) |-> build.fill],
        scalars |-> [f \in 1..fields_count |->
                        [d \in 1..docs_count |-> Scalar("raw", build.fill, 0)]],
        str_offsets |-> [f \in 1..fields_count |->
                            [d \in 1..docs_count |-> build.fill]],
        str_lengths |-> [f \in 1..fields_count |->
                            [d \in 1..docs_count |-> build.fill]],
        output |-> <<>>]

\* the column of a field: where its three bitmaps begin in the block
\* (index of their first byte), and the field its cells belong to
column_begin_t(field_idx, docs_count, fields_count) ==
    LET slots_per_bitmap ==
            docs_count \div 8 + (IF docs_count % 8 # 0 THEN 1 ELSE 0)
    IN [validities |-> 1 + field_idx * slots_per_bitmap,
        conversions |-> 1 + slots_per_bitmap * fields_count
                          + field_idx * slots_per_bitmap,
        collisions |-> 1 + 2 * slots_per_bitmap * fields_count
                         + field_idx * slots_per_bitmap,
        field |-> field_idx + 1]

\* the value of a field in a parsed document, the null object when absent
found_value(parsed, field) ==
    IF StartsWithSlash(field.str)
    THEN IF json_contains(parsed, json_ptr_t(field.str))
         THEN json_at(parsed, json_ptr_t(field.str)) ELSE JNull
    ELSE IF parsed.kind = "object" /\ field.str \in DOMAIN parsed.m
         THEN parsed.m[field.str] ELSE JNull

\* the export of one cell: the switch over the requested type
export_cell(type, value, doc_idx, column, mem, build) ==
    IF type \in {ukv_type_bool_k} \cup SignedTypes \cup UnsignedTypes \cup FloatTypes
    THEN export_scalar_column(type, value, doc_idx, column, mem, build)
    ELSE IF type \in {ukv_type_str_k, ukv_type_bin_k}
    THEN export_string_column(value, doc_idx, column, mem)
    ELSE mem

\* ukv_docs_gather, with the three bitmaps requested
ukv_docs_gather(h, tx, c_txn, keys, fields, types, c_options, build) ==
    LET c_docs_count == Len(keys)
        c_fields_count == Len(fields)
        Gathered(binary_docs) ==
            LET cell[i \in 0..(c_docs_count * c_fields_count)] ==
                    IF i = 0
                    THEN [mem |-> PreparedMemory(c_docs_count, c_fields_count, build),
                          error |-> NoError]
                    ELSE LET doc_idx == (i - 1) \div c_fields_count
                             field_idx == (i - 1) % c_fields_count
                             Cell(before, parsed) ==
                                 IF before.error # NoError THEN before
                                 ELSE IF parsed.error # NoError
                                 THEN [before EXCEPT !.error = parsed.error]
                                 ELSE [before EXCEPT !.mem =
                                         export_cell(types[field_idx + 1],
                                                     found_value(parsed.json,
                                                                 fields[field_idx + 1]),
                                                     doc_idx,
                                                     column_begin_t(field_idx, c_docs_count,
                                                                    c_fields_count),
                                                     @, build)]
                         IN Cell(cell[i - 1],
                                 parse_any(FoundBytes(binary_docs.vals[doc_idx + 1]),
                                           internal_format_k))
            IN [mem |-> cell[c_docs_count * c_fields_count].mem,
                error |-> cell[c_docs_count * c_fields_count].error,
                seen |-> <<keys>>,
                txn |-> binary_docs.txn]
        Read(binary_docs) ==
            IF binary_docs.error # NoError
            THEN [mem |-> PreparedMemory(0, 0, build), error |-> binary_docs.error,
                  seen |-> <<>>, txn |-> binary_docs.txn]
            ELSE IF parse_fields(fields) # NoError
            THEN [mem |-> PreparedMemory(0, 0, build), error |-> parse_fields(fields),
                  seen |-> <<keys>>, txn |-> binary_docs.txn]
            ELSE Gathered(binary_docs)
    IN Read(ukv_read_batch(h, tx, c_txn, keys, c_options.track))

\* the bitmap outputs a caller may leave out: a null c_result_bitmap_converted
\* or c_result_bitmap_collision
AllBitmaps == [conversions |-> TRUE, collisions |-> TRUE]

\* ukv_docs_gather with any of the bitmap outputs: the column of every cell
\* is read through all three output pointers, and reading through a null
\* one is undefined: the call ends there and never returns, or the read
\* gives some address and the flags of that bitmap land outside the block
ukv_docs_gather_outputs(h, tx, c_txn, keys, fields, types, c_options, build, wants) ==
    LET call == ukv_docs_gather(h, tx, c_txn, keys, fields, types, c_options, build)
        read == ukv_read_batch(h, tx, c_txn, keys, c_options.track)
        reaches_cells ==
            /\ read.error = NoError
            /\ parse_fields(fields) = NoError
            /\ Len(keys) > 0 /\ Len(fields) > 0
            /\ parse_any(FoundBytes(read.vals[1]), internal_format_k).error = NoError
    IN IF wants = AllBitmaps \/ ~reaches_cells
       THEN {[call |-> call, completed |-> TRUE, stray |-> FALSE]}
       ELSE {[call |-> [call EXCEPT !.mem = PreparedMemory(Len(keys), Len(fields), build),
                                    !.error = NoError],
              completed |-> FALSE, stray |-> FALSE],
             [call |-> call, completed |-> TRUE, stray |-> TRUE]}

\* the fields parse_fields takes from a strided view, before it parses them:
\* field field_idx of a view with a stride; of a view without stride the
\* strings that lie one behind the other from the first field on, which
\* behind the last string of the caller are the strings beyond, whatever
\* the memory there holds
heapy_fields(fields, n, beyond) ==
    [field_idx \in 1..n |->
        IF fields.stride # 0 THEN fields.items[field_idx]
        ELSE IF fields.items[1].null THEN NullField
        ELSE (fields.items \o beyond)[field_idx]]

\* ukv_docs_gather of fields_count columns whose fields come as a view
ukv_docs_gather_view(h, tx, c_txn, keys, fields, n, types, c_options, build, beyond) ==
    ukv_docs_gather(h, tx, c_txn, keys, heapy_fields(fields, n, beyond),
                    types, c_options, build)

(***************************************************************************)
(* Gist                                                                    *)
(***************************************************************************)
\* the reference tokens of the places of an array
IndexToken == <<"0", "1">>

RECURSIVE flatten(_, _)
\* json_t::flatten: the JSON Pointers of the values that hold no other
\* value, a pointer being the characters "/" and token of every step; an
\* empty object or array is one of these values, and so is a discarded one
flatten(reference_string, json) ==
    IF json.kind = "array" /\ Len(json.a) > 0
    THEN UNION {flatten(reference_string \o <<"/", IndexToken[i]>>, json.a[i]) :
                  i \in 1..Len(json.a)}
    ELSE IF json.kind = "object" /\ DOMAIN json.m # {}
    THEN UNION {flatten(reference_string \o <<"/", n>>, json.m[n]) :
                  n \in DOMAIN json.m}
    ELSE {reference_string}

\* the orders a std::unordered_set may hand its elements out in
IterationOrders(paths) ==
    {order \in [1..Cardinality(paths) -> paths] :
        \A i, j \in 1..Cardinality(paths) : i # j => order[i] # order[j]}

RECURSIVE PackedPaths(_)
\* the paths on the tape, each with its NUL
PackedPaths(order) ==
    IF order = <<>> THEN <<>>
    ELSE Head(order) \o <<"NUL">> \o PackedPaths(Tail(order))

\* ukv_docs_gist: the outcomes, one for every order of the set of paths
ukv_docs_gist(h, tx, c_txn, keys, c_options) ==
    LET Exported(binary_docs, paths) ==
            {[found_fields_count |-> Cardinality(paths),
              found_fields |-> PackedPaths(order),
              error |-> NoError, seen |-> <<keys>>, txn |-> binary_docs.txn] :
                order \in IterationOrders(paths)}
        Flattened(binary_docs) ==
            IF binary_docs.error # NoError
            THEN {[found_fields_count |-> 0, found_fields |-> <<>>,
                   error |-> binary_docs.error, seen |-> <<>>,
                   txn |-> binary_docs.txn]}
            ELSE
            Exported(binary_docs,
                     UNION {flatten(<<>>,
                                    parse_any(FoundBytes(binary_docs.vals[doc_idx]),
                                              internal_format_k).json) :
                              doc_idx \in 1..Len(keys)})
    IN Flattened(ukv_read_batch(h, tx, c_txn, keys, c_options.track))

(***************************************************************************)
(* BLOB PROXY: members_ref_gt over one key, binary format, no field        *)
(***************************************************************************)
ukv_options_default_k == [track |-> FALSE, flush |-> FALSE, lengths |-> FALSE]
ukv_option_read_lengths_k == [track |-> FALSE, flush |-> FALSE, lengths |-> TRUE]
ukv_option_read_track_k == [track |-> TRUE, flush |-> FALSE, lengths |-> FALSE]
ukv_option_write_flush_k == [track |-> FALSE, flush |-> TRUE, lengths |-> FALSE]

\* the union of two option masks
OrOptions(a, b) ==
    [track |-> a.track \/ b.track, flush |-> a.flush \/ b.flush,
     lengths |-> a.lengths \/ b.lengths]

\* the bytes at the address of the proxy object, which clear() points to
ThisBytes == <<9, 9>>

\* members_ref_gt::any_assign, the ukv_write branch
any_assign(h, tx, t, k, vals, options) == ukv_write(h, tx, t, k, vals)

\* members_ref_gt::any_get, the ukv_read branch: found length and value view
any_get(h, tx, t, k, options) ==
    LET r == ukv_read(h, tx, t, k, options.track)
    IN [len |-> r.len,
        bytes |-> IF options.lengths \/ r.len = ukv_val_len_missing_k THEN <<>>
                  ELSE SubSeq(r.bytes, 1, r.len),
        txn |-> r.txn]

\* members_ref_gt::assign
assign(h, tx, t, k, vals, flush) ==
    any_assign(h, tx, t, k, vals,
               IF flush THEN ukv_option_write_flush_k ELSE ukv_options_default_k)

\* members_ref_gt::erase
erase(h, tx, t, k, flush) == assign(h, tx, t, k, NullArg, flush)

\* clear() handing over a NULL contents pointer
clear_NullContents(h, tx, t, k, flush) == assign(h, tx, t, k, NullArg, flush)

\* members_ref_gt::clear: a non-NULL pointer with the length zero
clear(h, tx, t, k, flush) ==
    assign(h, tx, t, k, [ptr |-> "data", bytes |-> ThisBytes, len |-> 0], flush)

\* members_ref_gt::value
value(h, tx, t, k, track) ==
    any_get(h, tx, t, k,
            IF track THEN ukv_option_read_track_k ELSE ukv_options_default_k)

\* members_ref_gt::length
length(h, tx, t, k, track) ==
    any_get(h, tx, t, k,
            OrOptions(IF track THEN ukv_option_read_track_k ELSE ukv_options_default_k,
                      ukv_option_read_lengths_k))

\* members_ref_gt::present
present(h, tx, t, k, track) ==
    LET maybe == length(h, tx, t, k, track)
    IN [result |-> maybe.len # ukv_val_len_missing_k, txn |-> maybe.txn]

(***************************************************************************)
(* JAVA BINDING: DataBase.Transaction                                      *)
(***************************************************************************)
Blobs == {<<>>, <<7>>}

\* txn_ptr(env, txn_java): the handle stored in the Java object
txn_ptr(t) == t

\* Transaction.put writing outside the transaction
Java_put_NullTxn(h, tx, t, k, value_java) ==
    ukv_write(h, tx, NullTxn, k, DataArg(value_java))

\* Java_com_unum_ukv_DataBase_00024Transaction_put
Java_put(h, tx, t, k, value_java) ==
    ukv_write(h, tx, txn_ptr(t), k, DataArg(value_java))

\* Java_com_unum_ukv_DataBase_00024Transaction_erase
Java_erase(h, tx, t, k) ==
    ukv_write(h, tx, txn_ptr(t), k, NullArg)

\* Java_com_unum_ukv_DataBase_00024Transaction_containsKey
Java_containsKey(h, tx, t, k) ==
    LET r == ukv_read(h, tx, txn_ptr(t), k, ukv_option_read_lengths_k.track)
    IN [result |-> r.len # ukv_val_len_missing_k, txn |-> r.txn]

\* Java_com_unum_ukv_DataBase_00024Transaction_get: NULL or a new byte array
Java_get(h, tx, t, k) ==
    LET r == ukv_read(h, tx, txn_ptr(t), k, ukv_options_default_k.track)
    IN [result |-> IF r.len # ukv_val_len_missing_k
                   THEN [null |-> FALSE, bytes |-> SubSeq(r.bytes, 1, r.len)]
                   ELSE [null |-> TRUE, bytes |-> <<>>],
        txn |-> r.txn]

\* Transaction.rollback leaving the transaction as it is
Java_rollback_KeepsWrites(tx, t) == tx

\* Java_com_unum_ukv_DataBase_00024Transaction_rollback
Java_rollback(tx, t) == ukv_txn_begin(tx, txn_ptr(t))

\* Transaction.commit reporting success whatever the substrate says
Java_commit_IgnoreError(h, tx, t) ==
    LET r == ukv_txn_commit(h, tx, txn_ptr(t))
    IN [head |-> r.head, txn |-> r.txn, result |-> TRUE]

\* Java_com_unum_ukv_DataBase_00024Transaction_commit
Java_commit(h, tx, t) ==
    LET r == ukv_txn_commit(h, tx, txn_ptr(t))
    IN [head |-> r.head, txn |-> r.txn, result |-> IF r.error THEN FALSE ELSE TRUE]

(***************************************************************************)
(* PYTHON BINDING: py_txn_t                                                *)
(***************************************************************************)
\* py_txn_t::operator py_task_ctx_t: the options of the calls of a transaction
py_task_ctx(tracking, flushing) ==
    [track |-> (ukv_options_default_k.track \/ tracking),
     flush |-> (ukv_options_default_k.flush \/ flushing),
     lengths |-> FALSE]

\* a read through a py_txn_t
py_read(h, tx, t, k, tracking) ==
    ukv_read(h, tx, t, k, py_task_ctx(tracking, FALSE).track)

\* the keys of the documents collection
DocKeys == {1, 3, 5}
\* no document call was made yet
NoCall == [op |-> "none"]

(***************************************************************************)
(* Transactions: state and actions                                         *)
(***************************************************************************)
\* the calls a transaction made since it began: per key the value first read
\* from outside the transaction and the last write, whether it read without
\* tracking, whether two of its reads of one key disagreed, and what commit
\* returned
FreshLog ==
    [rlog |-> [k \in Keys |-> NoRead],
     wlog |-> [k \in Keys |-> NoWrite],
     untracked |-> FALSE,
     incons |-> FALSE,
     result |-> "none"]

\* the keys a transaction reads or writes between two begins
MaxTxnCalls == 2
\* the values the transactions put
TxnBlobs == {<<7>>}

LogSize(lg) ==
    Cardinality({k \in Keys : lg.rlog[k].seen}) +
    Cardinality({k \in Keys : lg.wlog[k].w # "none"})

\* a transaction is used until its commit returns, and restarted after
CanRead(t, k) ==
    /\ txn[t].status = "active" /\ t_hist[t].result = "none"
    /\ t_hist[t].rlog[k].seen \/ LogSize(t_hist[t]) < MaxTxnCalls

CanWrite(t, k) ==
    /\ txn[t].status = "active" /\ t_hist[t].result = "none"
    /\ t_hist[t].wlog[k].w # "none" \/ LogSize(t_hist[t]) < MaxTxnCalls

\* the log after transaction t read value v under key k
LogRead(lg, k, v, tracked) ==
    IF lg.wlog[k].w # "none" THEN lg
    ELSE [lg EXCEPT !.rlog[k] = IF lg.rlog[k].seen THEN lg.rlog[k]
                                 ELSE [seen |-> TRUE, val |-> v],
                    !.incons = lg.incons \/ (lg.rlog[k].seen /\ lg.rlog[k].val # v),
                    !.untracked = lg.untracked \/ ~tracked]

\* the value a read result stands for
ReadVal(r) ==
    IF r.len = ukv_val_len_missing_k THEN MissingVal
    ELSE PresentVal(SubSeq(r.bytes, 1, r.len))

\* nothing upserted yet, no remove(edges_view_t) call made
NoGraphHistory == [ups |-> <<>>, pure |-> TRUE, edges |-> <<>>]

GraphIdle ==
    /\ adj = [v \in Vertices |-> MissingEntry]
    /\ g_last = [op |-> "none", v |-> 0, role |-> "none"]
    /\ g_hist = NoGraphHistory

TxnIdle ==
    /\ head = [k \in Keys |-> MissingVal]
    /\ txn = [t \in Txns |-> FreshTxn]
    /\ track_reads = [t \in Txns |-> FALSE]
    /\ t_hist = [t \in Txns |-> FreshLog]

\* the contexts a blob call is made in: the NULL transaction or a transaction
BlobCtxs == {NullTxn, 1}
NeverOp == [op |-> "never", bytes |-> <<>>]
NoBlobRead ==
    [op |-> "none", c |-> NullTxn, k |-> 0, present |-> FALSE, len |-> 0,
     bytes |-> <<>>, null |-> FALSE]

BlobIdle ==
    /\ b_log = [c \in BlobCtxs |-> [k \in Keys |-> NeverOp]]
    /\ b_res = NoBlobRead

DocsIdle ==
    /\ docs = [k \in DocKeys |-> MissingVal]
    /\ d_last = NoCall

TxnInit ==
    /\ GraphIdle /\ BlobIdle /\ DocsIdle
    /\ head = [k \in Keys |-> MissingVal]
    /\ txn = [t \in Txns |-> FreshTxn]
    /\ track_reads \in [Txns -> BOOLEAN]
    /\ t_hist = [t \in Txns |-> FreshLog]

TxnPut(t, k, bytes) ==
    /\ CanWrite(t, k)
    /\ LET r == Java_put(head, txn, t, k, bytes)
       IN head' = r.head /\ txn' = r.txn
    /\ t_hist' = [t_hist EXCEPT ![t].wlog[k] = [w |-> "put", bytes |-> bytes]]
    /\ UNCHANGED <<track_reads, graph_vars, blob_vars, docs_vars>>

TxnErase(t, k) ==
    /\ CanWrite(t, k)
    /\ LET r == Java_erase(head, txn, t, k)
       IN head' = r.head /\ txn' = r.txn
    /\ t_hist' = [t_hist EXCEPT ![t].wlog[k] = [w |-> "erase", bytes |-> <<>>]]
    /\ UNCHANGED <<track_reads, graph_vars, blob_vars, docs_vars>>

PyRead(t, k) ==
    /\ CanRead(t, k)
    /\ LET r == py_read(head, txn, t, k, track_reads[t])
       IN /\ txn' = r.txn
          /\ t_hist' = [t_hist EXCEPT ![t] = LogRead(@, k, ReadVal(r), track_reads[t])]
    /\ UNCHANGED <<head, track_reads, graph_vars, blob_vars, docs_vars>>

TxnRollback(t) ==
    /\ txn' = Java_rollback(txn, t)
    /\ t_hist' = [t_hist EXCEPT ![t] = FreshLog]
    /\ UNCHANGED <<head, track_reads, graph_vars, blob_vars, docs_vars>>

TxnCommit(t) ==
    /\ txn[t].status = "active" /\ t_hist[t].result = "none"
    /\ LET r == Java_commit(head, txn, t)
       IN /\ head' = r.head
          /\ txn' = r.txn
          /\ t_hist' = [t_hist EXCEPT ![t].result = IF r.result THEN "true" ELSE "false"]
    /\ UNCHANGED <<track_reads, graph_vars, blob_vars, docs_vars>>

TxnNext ==
    \/ \E t \in Txns, k \in Keys, bytes \in TxnBlobs : TxnPut(t, k, bytes)
    \/ \E t \in Txns, k \in Keys : TxnErase(t, k)
    \/ \E t \in Txns, k \in Keys : PyRead(t, k)
    \/ \E t \in Txns : TxnRollback(t)
    \/ \E t \in Txns : TxnCommit(t)

SpecTxn == TxnInit /\ [][TxnNext]_vars

(***************************************************************************)
(* Transactions: writes, rollbacks and commits                             *)
(***************************************************************************)
\* what a transaction did since its last rollback: the last write per key
\* and what its commit returned; undone are the keys whose writes the
\* rollbacks since its last commit discarded
FreshWrites == [wlog |-> [k \in Keys |-> NoWrite], undone |-> {}, result |-> "none"]

TxnRollbackInit ==
    /\ GraphIdle /\ BlobIdle /\ DocsIdle
    /\ head = [k \in Keys |-> MissingVal]
    /\ txn = [t \in Txns |-> FreshTxn]
    /\ track_reads = [t \in Txns |-> FALSE]
    /\ t_hist = [t \in Txns |-> FreshWrites]

\* Transaction.put
RollbackPut(t, k, bytes) ==
    /\ txn[t].status = "active"
    /\ LET r == Java_put(head, txn, t, k, bytes)
       IN head' = r.head /\ txn' = r.txn
    /\ t_hist' = [t_hist EXCEPT ![t].wlog[k] = [w |-> "put", bytes |-> bytes]]
    /\ UNCHANGED <<track_reads, graph_vars, blob_vars, docs_vars>>

\* Transaction.erase
RollbackErase(t, k) ==
    /\ txn[t].status = "active"
    /\ LET r == Java_erase(head, txn, t, k)
       IN head' = r.head /\ txn' = r.txn
    /\ t_hist' = [t_hist EXCEPT ![t].wlog[k] = [w |-> "erase", bytes |-> <<>>]]
    /\ UNCHANGED <<track_reads, graph_vars, blob_vars, docs_vars>>

\* Transaction.rollback
RollbackCall(t) ==
    /\ txn' = Java_rollback(txn, t)
    /\ t_hist' = [t_hist EXCEPT ![t] =
                    [wlog |-> FreshWrites.wlog,
                     undone |-> IF @.result # "none" THEN {}
                                ELSE @.undone \cup {k \in Keys : @.wlog[k].w # "none"},
                     result |-> "none"]]
    /\ UNCHANGED <<head, track_reads, graph_vars, blob_vars, docs_vars>>

\* Transaction.commit
RollbackCommit(t) ==
    /\ txn[t].status = "active"
    /\ LET r == Java_commit(head, txn, t)
       IN /\ head' = r.head
          /\ txn' = r.txn
          /\ t_hist' = [t_hist EXCEPT ![t].result = IF r.result THEN "true" ELSE "false"]
    /\ UNCHANGED <<track_reads, graph_vars, blob_vars, docs_vars>>

TxnRollbackNext ==
    \/ \E t \in Txns, k \in Keys, bytes \in TxnBlobs : RollbackPut(t, k, bytes)
    \/ \E t \in Txns, k \in Keys : RollbackErase(t, k)
    \/ \E t \in Txns : RollbackCall(t)
    \/ \E t \in Txns : RollbackCommit(t)

SpecTxnRollback == TxnRollbackInit /\ [][TxnRollbackNext]_vars

(***************************************************************************)
(* Blobs: state and actions                                                *)
(***************************************************************************)
BlobInit ==
    /\ GraphIdle /\ TxnIdle /\ BlobIdle /\ DocsIdle

BlobRead(op, c, k, isPresent, len, bytes, null) ==
    [op |-> op, c |-> c, k |-> k, present |-> isPresent, len |-> len,
     bytes |-> bytes, null |-> null]

BlobAssign(c, k, bytes) ==
    /\ LET r == assign(head, txn, c, k, DataArg(bytes), FALSE)
       IN head' = r.head /\ txn' = r.txn
    /\ b_log' = [b_log EXCEPT ![c][k] = [op |-> "write", bytes |-> bytes]]
    /\ b_res' = NoBlobRead
    /\ UNCHANGED <<track_reads, t_hist, graph_vars, docs_vars>>

BlobClear(c, k) ==
    /\ LET r == clear(head, txn, c, k, FALSE)
       IN head' = r.head /\ txn' = r.txn
    /\ b_log' = [b_log EXCEPT ![c][k] = [op |-> "clear", bytes |-> <<>>]]
    /\ b_res' = NoBlobRead
    /\ UNCHANGED <<track_reads, t_hist, graph_vars, docs_vars>>

BlobErase(c, k) ==
    /\ LET r == erase(head, txn, c, k, FALSE)
       IN head' = r.head /\ txn' = r.txn
    /\ b_log' = [b_log EXCEPT ![c][k] = [op |-> "erase", bytes |-> <<>>]]
    /\ b_res' = NoBlobRead
    /\ UNCHANGED <<track_reads, t_hist, graph_vars, docs_vars>>

BlobValue(c, k) ==
    /\ LET r == value(head, txn, c, k, FALSE)
       IN /\ txn' = r.txn
          /\ b_res' = BlobRead("value", c, k, FALSE, r.len, r.bytes, FALSE)
    /\ UNCHANGED <<head, b_log, track_reads, t_hist, graph_vars, docs_vars>>

BlobPresent(c, k) ==
    /\ LET r == present(head, txn, c, k, FALSE)
       IN /\ txn' = r.txn
          /\ b_res' = BlobRead("present", c, k, r.result, 0, <<>>, FALSE)
    /\ UNCHANGED <<head, b_log, track_reads, t_hist, graph_vars, docs_vars>>

BlobJavaPut(t, k, bytes) ==
    /\ LET r == Java_put(head, txn, t, k, bytes)
       IN head' = r.head /\ txn' = r.txn
    /\ b_log' = [b_log EXCEPT ![t][k] = [op |-> "write", bytes |-> bytes]]
    /\ b_res' = NoBlobRead
    /\ UNCHANGED <<track_reads, t_hist, graph_vars, docs_vars>>

BlobJavaErase(t, k) ==
    /\ LET r == Java_erase(head, txn, t, k)
       IN head' = r.head /\ txn' = r.txn
    /\ b_log' = [b_log EXCEPT ![t][k] = [op |-> "erase", bytes |-> <<>>]]
    /\ b_res' = NoBlobRead
    /\ UNCHANGED <<track_reads, t_hist, graph_vars, docs_vars>>

BlobJavaGet(t, k) ==
    /\ LET r == Java_get(head, txn, t, k)
       IN /\ txn' = r.txn
          /\ b_res' = BlobRead("get", t, k, FALSE, 0, r.result.bytes, r.result.null)
    /\ UNCHANGED <<head, b_log, track_reads, t_hist, graph_vars, docs_vars>>

BlobJavaContainsKey(t, k) ==
    /\ LET r == Java_containsKey(head, txn, t, k)
       IN /\ txn' = r.txn
          /\ b_res' = BlobRead("containsKey", t, k, r.result, 0, <<>>, FALSE)
    /\ UNCHANGED <<head, b_log, track_reads, t_hist, graph_vars, docs_vars>>

BlobNext ==
    \/ \E c \in BlobCtxs, k \in Keys, bytes \in Blobs : BlobAssign(c, k, bytes)
    \/ \E c \in BlobCtxs, k \in Keys : BlobClear(c, k)
    \/ \E c \in BlobCtxs, k \in Keys : BlobErase(c, k)
    \/ \E c \in BlobCtxs, k \in Keys : BlobValue(c, k)
    \/ \E c \in BlobCtxs, k \in Keys : BlobPresent(c, k)
    \/ \E t \in BlobCtxs \ {NullTxn}, k \in Keys, bytes \in Blobs : BlobJavaPut(t, k, bytes)
    \/ \E t \in BlobCtxs \ {NullTxn}, k \in Keys : BlobJavaErase(t, k)
    \/ \E t \in BlobCtxs \ {NullTxn}, k \in Keys : BlobJavaGet(t, k)
    \/ \E t \in BlobCtxs \ {NullTxn}, k \in Keys : BlobJavaContainsKey(t, k)

SpecBlob == BlobInit /\ [][BlobNext]_vars

(***************************************************************************)
(* Documents: state and actions                                            *)
(***************************************************************************)
\* the longest batches of the document calls
MaxWriteTasks == 2
MaxReadTasks == 4

\* documents as the callers write them in JSON text
TextA == TObj(<<<<"a", JNum(1)>>>>)
TextBA == TObj(<<<<"b", JStr("7")>>, <<"a", JNum(1)>>>>)
TextANull == TObj(<<<<"a", JNull>>>>)
TextNested == TObj(<<<<"a", TObj(<<<<"b", JNum(2)>>>>)>>>>)
TextRemoveA ==
    [kind |-> "array",
     a |-> <<TObj(<<<<"op", JStr("remove")>>, <<"path", JStr("/a")>>>>)>>]
TextAddRoot ==
    [kind |-> "array",
     a |-> <<TObj(<<<<"op", JStr("add")>>, <<"path", JStr("")>>,
                    <<"value", JNum(2)>>>>)>>]
TextDocs == {TextA, TextBA, TextANull, JNum(2), TGarbage, TextRemoveA, TextAddRoot}

DocFormats ==
    {ukv_format_binary_k, ukv_format_json_k, ukv_format_json_patch_k,
     ukv_format_json_merge_patch_k, ukv_format_msgpack_k, ukv_format_bson_k,
     ukv_format_cbor_k, ukv_format_ubjson_k, ukv_format_other_k}

\* the bytes of a document in a format, as its writer encodes them: text for
\* the text formats, the packed form for the packed ones where there is one
Encoded(text, c_format) ==
    IF c_format \in PackedFormats
    THEN LET packed == dump_any(ParseText(text), c_format)
         IN IF ParseText(text) = Discarded \/ packed.error # NoError
            THEN GarbageBytes ELSE packed.bytes
    ELSE <<Chunk("json", text)>>

\* the contents stored before the calls: nothing, or a document
StoredDoc(text) == PresentVal(Encoded(text, internal_format_k))
WriteKeys == {1, 3}

WriteTasks(c_format) ==
    [key : WriteKeys,
     val : {DataArg(Encoded(text, c_format)) : text \in TextDocs} \cup {NullArg}]

\* the fields arguments of a batch of n tasks
FieldsArgs(n, names) ==
    {NoFields} \cup {RepeatedField(Field(f)) : f \in names}
    \cup {FieldPerTask(fs) : fs \in [1..n -> {NullField} \cup {Field(f) : f \in names}]}

\* the fields of the write calls: a top-level name and a JSON Pointer
WriteFieldNames == {"a", "/a/b"}

DocsWriteInit ==
    /\ GraphIdle /\ TxnIdle /\ BlobIdle
    /\ docs \in [DocKeys -> {MissingVal, StoredDoc(TextBA)}]
    /\ docs[5] = MissingVal
    /\ d_last = NoCall

DocsReadInit ==
    /\ GraphIdle /\ TxnIdle /\ BlobIdle
    /\ docs \in [DocKeys -> {MissingVal, StoredDoc(TextBA), StoredDoc(TextNested)}]
    /\ docs[1] # StoredDoc(TextNested) /\ docs[3] # StoredDoc(TextNested)
    /\ docs[5] # StoredDoc(TextBA)
    /\ d_last = NoCall

\* a docs_write call
DocsWrite(tasks, fields, c_format) ==
    /\ \E r \in ukv_docs_write(docs, txn, NullTxn, tasks, fields,
                               ukv_options_default_k, c_format) :
          /\ docs' = r.head
          /\ txn' = r.txn
          /\ d_last' = [op |-> "write", tasks |-> tasks, fields |-> fields,
                        format |-> c_format, pre |-> docs, error |-> r.error,
                        issued |-> r.issued, crashed |-> r.crashed,
                        after |-> d_last]
    /\ UNCHANGED <<head, track_reads, t_hist, graph_vars, blob_vars>>

\* a docs_read call
DocsRead(keys, fields, c_format) ==
    /\ \E r \in {ukv_docs_read(docs, txn, NullTxn, keys, fields,
                               ukv_options_default_k, c_format)} :
          /\ txn' = r.txn
          /\ d_last' = [op |-> "read", keys |-> keys, fields |-> fields,
                        format |-> c_format, outs |-> r.outs, error |-> r.error,
                        seen |-> r.seen, after |-> d_last]
    /\ UNCHANGED <<docs, head, track_reads, t_hist, graph_vars, blob_vars>>

\* one write call on the stored documents, then reads of what it wrote in
\* the format it was written in
DocsWriteNext ==
    \/ /\ d_last.op = "none"
       /\ \E c_format \in DocFormats, n \in 1..MaxWriteTasks :
            \E tasks \in [1..n -> WriteTasks(c_format)],
               fields \in FieldsArgs(n, WriteFieldNames) :
               DocsWrite(tasks, fields, c_format)
    \/ /\ d_last.op = "write"
       /\ ~d_last.crashed
       /\ \E k \in Range(KeysOf(d_last.tasks)) :
            DocsRead(<<k>>, NoFields, d_last.format)

SpecDocsWrite == DocsWriteInit /\ [][DocsWriteNext]_vars

\* read calls on the stored documents
DocsReadNext ==
    /\ d_last.op = "none"
    /\ \E c_format \in {ukv_format_json_k, ukv_format_msgpack_k, ukv_format_bson_k},
          n \in 1..MaxReadTasks :
          \E keys \in [1..n -> DocKeys], fields \in FieldsArgs(n, {"a"}) :
             DocsRead(keys, fields, c_format)

SpecDocsRead == DocsReadInit /\ [][DocsReadNext]_vars

(***************************************************************************)
(* Documents: gather calls                                                 *)
(***************************************************************************)
\* the longest batch of a gather call: more than the bits of a bitmap byte
MaxGatherDocs == 9

\* the values the documents hold in member a: every kind of json_t
GatherValues ==
    {JNull, JNum(2), JNum(-7), JBool(TRUE), JBool(FALSE), JFloat(75, 0),
     JFloat(20, 23),
     JFloat(20, 24), JFloat(10, 300), JStr("7"), JStr("-7"), JStr("7.5"), JStr("x"),
     JStr("true"), JObj([n \in {"b"} |-> JNum(2)]), JArr(<<>>),
     JBin(GarbageBytes), JBin(GarbageBytes \o GarbageBytes)}

\* a stored document: the internal form of a json_t
StoredJson(json) == PresentVal(dump_any(json, internal_format_k).bytes)

\* the documents stored before a gather: objects with a member a, an object
\* without it, a document that is no object, and nothing
GatherStored ==
    {StoredJson(JObj([n \in {"a"} |-> v])) : v \in GatherValues}
    \cup {StoredJson(JObj([n \in {"b"} |-> JStr("7")])), StoredJson(JNum(2)),
          MissingVal}

\* the requested types, one of them without an export
GatherTypes ==
    {ukv_type_bool_k, ukv_type_str_k, ukv_type_bin_k, ukv_type_f16_k}
    \cup SignedTypes \cup UnsignedTypes \cup FloatTypes

\* the columns of a call: one of any type, or two
GatherColumns ==
    {[fields |-> <<Field(f)>>, types |-> <<t>>] :
        f \in {"a", "/a/b"}, t \in GatherTypes}
    \cup {[fields |-> <<Field("a"), Field("b")>>, types |-> <<t, u>>] :
            t \in {"i32", "u8", ukv_type_str_k},
            u \in {"i64", "f64", ukv_type_str_k}}
    \cup {[fields |-> <<NullField>>, types |-> <<"i32">>]}

\* the columns of the long calls
LongGatherColumns ==
    {c \in GatherColumns :
        /\ c.fields[1] = Field("a")
        /\ c.types \in {<<"i32">>, <<ukv_type_bool_k>>, <<ukv_type_str_k>>,
                        <<"u8", ukv_type_str_k>>}}

\* the keys of a call of n documents: key 3 everywhere but at one place at
\* most, key 1 there
GatherKeys(n) == {[i \in 1..n |-> IF i = d THEN 1 ELSE 3] : d \in 0..n}

\* the calls: short ones for every column, long ones for some
GatherRequests ==
    UNION {[keys : GatherKeys(n),
            columns : IF n <= 2 THEN GatherColumns ELSE LongGatherColumns] :
              n \in 1..MaxGatherDocs}

\* what the build leaves in memory that was not written, and what it stores
\* for a floating-point number outside the range of the requested type
Builds == [fill : {0, 255}, overflow : {0, 1}]

DocsGatherInit ==
    /\ GraphIdle /\ TxnIdle /\ BlobIdle
    /\ docs \in [DocKeys -> GatherStored \cup
                    {StoredJson(JObj([n \in {"a", "b"} |->
                                       IF n = "a" THEN JNum(2) ELSE JStr("7")]))}]
    /\ docs[1] \in GatherStored
    /\ docs[3] \in {MissingVal,
                    StoredJson(JObj([n \in {"a", "b"} |->
                                       IF n = "a" THEN JNum(2) ELSE JStr("7")]))}
    /\ docs[5] = MissingVal
    /\ d_last = NoCall

\* a docs_gather call
DocsGather(keys, columns, build) ==
    /\ \E r \in {ukv_docs_gather(docs, txn, NullTxn, keys, columns.fields,
                                 columns.types, ukv_options_default_k, build)} :
          /\ txn' = r.txn
          /\ d_last' = [op |-> "gather", keys |-> keys, fields |-> columns.fields,
                        types |-> columns.types, build |-> build, pre |-> docs,
                        mem |-> r.mem, error |-> r.error, after |-> d_last]
    /\ UNCHANGED <<docs, head, track_reads, t_hist, graph_vars, blob_vars>>

\* one gather call on the stored documents
DocsGatherNext ==
    /\ d_last.op = "none"
    /\ \E request \in GatherRequests, build \in Builds :
          DocsGather(request.keys, request.columns, build)

SpecDocsGather == DocsGatherInit /\ [][DocsGatherNext]_vars

(***************************************************************************)
(* Documents: gather calls with and without the optional bitmaps           *)
(***************************************************************************)
\* the longest batch of these calls
MaxOutputDocs == 2

\* the calls: every choice of the two optional bitmap outputs
OutputRequests ==
    UNION {[keys : GatherKeys(n), columns : LongGatherColumns,
            wants : [conversions : BOOLEAN, collisions : BOOLEAN]] :
              n \in 0..MaxOutputDocs}

\* a docs_gather call and the outputs it was asked for
DocsGatherOutputs(keys, columns, build, wants) ==
    /\ \E r \in ukv_docs_gather_outputs(docs, txn, NullTxn, keys, columns.fields,
                                        columns.types, ukv_options_default_k,
                                        build, wants) :
          /\ txn' = r.call.txn
          /\ d_last' = [op |-> "gather", keys |-> keys, fields |-> columns.fields,
                        types |-> columns.types, build |-> build, wants |-> wants,
                        pre |-> docs, mem |-> r.call.mem, error |-> r.call.error,
                        completed |-> r.completed, stray |-> r.stray,
                        after |-> d_last]
    /\ UNCHANGED <<docs, head, track_reads, t_hist, graph_vars, blob_vars>>

\* one gather call on the stored documents
DocsGatherOutputsNext ==
    /\ d_last.op = "none"
    /\ \E request \in OutputRequests, build \in Builds :
          DocsGatherOutputs(request.keys, request.columns, build, request.wants)

SpecDocsGatherOutputs == DocsGatherInit /\ [][DocsGatherOutputsNext]_vars

(***************************************************************************)
(* Documents: gather calls whose fields are a strided view                 *)
(***************************************************************************)
\* the most columns and documents of these calls
MaxViewColumns == 2
MaxViewDocs == 2

\* the views of m fields: one field without stride, two strings one behind
\* the other without stride, and a field per column
FieldViews(m) ==
    {RepeatedField(Field("a")),
     [ptr |-> "data", stride |-> 0, items |-> <<Field("a"), Field("b")>>]}
    \cup {FieldPerTask(fs) : fs \in [1..m -> {Field("a"), Field("b")}]}

\* what the memory behind the strings of the caller may hold
Beyond == {[i \in 1..MaxViewColumns |-> Field(f)] : f \in {"", "a", "b"}}

ViewRequests ==
    UNION {UNION {[keys : GatherKeys(n), fields : FieldViews(m),
                   types : [1..m -> {"i32", ukv_type_str_k}]] :
                     m \in 1..MaxViewColumns} : n \in 1..MaxViewDocs}

\* a docs_gather call
DocsGatherView(keys, fields, types, build, beyond) ==
    /\ \E r \in {ukv_docs_gather_view(docs, txn, NullTxn, keys, fields, Len(types),
                                      types, ukv_options_default_k, build, beyond)} :
          /\ txn' = r.txn
          /\ d_last' = [op |-> "gather", keys |-> keys, view |-> fields,
                        fields |-> heapy_fields(fields, Len(types), beyond),
                        types |-> types, build |-> build, pre |-> docs,
                        mem |-> r.mem, error |-> r.error, after |-> d_last]
    /\ UNCHANGED <<docs, head, track_reads, t_hist, graph_vars, blob_vars>>

\* one gather call on the stored documents
DocsGatherViewNext ==
    /\ d_last.op = "none"
    /\ \E request \in ViewRequests, build \in Builds, beyond \in Beyond :
          DocsGatherView(request.keys, request.fields, request.types, build, beyond)

SpecDocsGatherView == DocsGatherInit /\ [][DocsGatherViewNext]_vars

(***************************************************************************)
(* Documents: a document written, patched and gathered                     *)
(***************************************************************************)
\* the most merge patches applied to the written document
MaxPatches == 2

\* the documents written first, as JSON text
ScenarioDocs == {TextBA, TextA, TextNested, JNum(2)}

\* the merge patches, as JSON text
ScenarioPatches ==
    {TObj(<<<<"a", JNum(2)>>>>), TextANull, TObj(<<<<"b", JNull>>>>), TextNested,
     TObj(<<<<"a", TObj(<<<<"b", JNull>>>>)>>>>), JNum(2), TObj(<<>>),
     TObj(<<<<"b", JNum(2)>>>>)}

\* the columns gathered from the document
ScenarioColumns ==
    {[fields |-> <<Field("a"), Field("b")>>, types |-> <<t, t>>] :
        t \in {"i32", "u32", "f64", ukv_type_str_k}}
    \cup {[fields |-> <<Field("/a/b")>>, types |-> <<"i64">>]}

RECURSIVE PatchCalls(_)
\* the merge patch calls among a call and those before it
PatchCalls(call) ==
    IF call.op = "none" THEN 0
    ELSE (IF call.op = "write" /\ call.format = ukv_format_json_merge_patch_k
          THEN 1 ELSE 0) + PatchCalls(call.after)

\* the one task of a write of a document to key 1
ScenarioTask(text, c_format) ==
    <<[key |-> 1, val |-> DataArg(Encoded(text, c_format))]>>

DocsScenarioInit ==
    /\ GraphIdle /\ TxnIdle /\ BlobIdle
    /\ docs = [k \in DocKeys |-> MissingVal]
    /\ d_last = NoCall

\* a document is written to key 1 as JSON text, merge patches are applied to
\* it without a field, and its members are gathered
DocsScenarioNext ==
    \/ /\ d_last.op = "none"
       /\ \E text \in ScenarioDocs :
             DocsWrite(ScenarioTask(text, ukv_format_json_k), NoFields,
                       ukv_format_json_k)
    \/ /\ d_last.op = "write"
       /\ PatchCalls(d_last) < MaxPatches
       /\ \E text \in ScenarioPatches :
             DocsWrite(ScenarioTask(text, ukv_format_json_merge_patch_k), NoFields,
                       ukv_format_json_merge_patch_k)
    \/ /\ d_last.op = "write"
       /\ \E columns \in ScenarioColumns, build \in Builds :
             DocsGather(<<1>>, columns, build)

SpecDocsScenario == DocsScenarioInit /\ [][DocsScenarioNext]_vars

(***************************************************************************)
(* Documents: gist calls                                                   *)
(***************************************************************************)
\* the longest batch of a gist call
MaxGistDocs == 3

\* the documents stored before a gist: nested objects, an object with an
\* empty member, arrays, a number, the empty object, and nothing
GistStored ==
    {StoredJson(JObj([n \in {"a"} |-> JObj([o \in {"b"} |-> JNum(1)])])),
     StoredJson(JObj([n \in {"a", "d"} |->
                        IF n = "a" THEN JObj([o \in {"c"} |-> JNum(2)])
                        ELSE JNum(3)])),
     StoredJson(JObj([n \in {"a"} |-> JArr(<<JNum(1), JStr("x")>>)])),
     StoredJson(JObj([n \in {"d"} |-> JArr(<<>>)])),
     StoredJson(JNum(2)),
     StoredJson(JObj(EmptyMembers)),
     MissingVal}

DocsGistInit ==
    /\ GraphIdle /\ TxnIdle /\ BlobIdle
    /\ docs \in [DocKeys -> GistStored]
    /\ d_last = NoCall

\* a docs_gist call
DocsGist(keys) ==
    /\ \E r \in ukv_docs_gist(docs, txn, NullTxn, keys, ukv_options_default_k) :
          /\ txn' = r.txn
          /\ d_last' = [op |-> "gist", keys |-> keys, pre |-> docs,
                        found_fields_count |-> r.found_fields_count,
                        found_fields |-> r.found_fields,
                        error |-> r.error, after |-> d_last]
    /\ UNCHANGED <<docs, head, track_reads, t_hist, graph_vars, blob_vars>>

\* one gist call on the stored documents
DocsGistNext ==
    /\ d_last.op = "none"
    /\ \E n \in 1..MaxGistDocs : \E keys \in [1..n -> DocKeys] : DocsGist(keys)

SpecDocsGist == DocsGistInit /\ [][DocsGistNext]_vars

(***************************************************************************)
(* Documents: calls with and without a database                            *)
(***************************************************************************)
\* the longest batch of these calls
MaxHandleTasks == 2

\* what a call leaves to look at: whether its handle was NULL, its error,
\* and whether the substrate read or wrote anything for it
HandleCall(op, c_db, error, touched, call) ==
    [op |-> op, null_db |-> c_db = NullDb, error |-> error, touched |-> touched,
     call |-> call, pre |-> docs, after |-> d_last]

\* a docs_write call on a handle
DocsWriteOn(c_db, tasks, fields, c_format) ==
    /\ \E r \in ukv_docs_write(c_db, txn, NullTxn, tasks, fields,
                               ukv_options_default_k, c_format) :
          /\ docs' = IF c_db = NullDb THEN docs ELSE r.head
          /\ txn' = r.txn
          /\ d_last' = HandleCall("write", c_db, r.error, r.issued,
                                  <<KeysOf(tasks), fields, c_format>>)
    /\ UNCHANGED <<head, track_reads, t_hist, graph_vars, blob_vars>>

\* a docs_read call on a handle
DocsReadOn(c_db, keys, fields, c_format) ==
    /\ \E r \in {ukv_docs_read(c_db, txn, NullTxn, keys, fields,
                               ukv_options_default_k, c_format)} :
          /\ txn' = r.txn
          /\ d_last' = HandleCall("read", c_db, r.error, r.seen # <<>>,
                                  <<keys, fields, c_format>>)
    /\ UNCHANGED <<docs, head, track_reads, t_hist, graph_vars, blob_vars>>

\* a docs_gist call on a handle
DocsGistOn(c_db, keys) ==
    /\ \E r \in ukv_docs_gist(c_db, txn, NullTxn, keys, ukv_options_default_k) :
          /\ txn' = r.txn
          /\ d_last' = HandleCall("gist", c_db, r.error, r.seen # <<>>,
                                  <<keys, r.found_fields>>)
    /\ UNCHANGED <<docs, head, track_reads, t_hist, graph_vars, blob_vars>>

\* a docs_gather call on a handle
DocsGatherOn(c_db, keys, columns, build) ==
    /\ \E r \in {ukv_docs_gather(c_db, txn, NullTxn, keys, columns.fields,
                                 columns.types, ukv_options_default_k, build)} :
          /\ txn' = r.txn
          /\ d_last' = HandleCall("gather", c_db, r.error, r.seen # <<>>,
                                  <<keys, columns>>)
    /\ UNCHANGED <<docs, head, track_reads, t_hist, graph_vars, blob_vars>>

DocsHandleInit ==
    /\ GraphIdle /\ TxnIdle /\ BlobIdle
    /\ docs \in [DocKeys -> {MissingVal, StoredDoc(TextBA)}]
    /\ d_last = NoCall

\* one call of the document layer, with the NULL handle or with the database
DocsHandleNext ==
    \/ /\ d_last.op = "none"
       /\ \E c_db \in {NullDb, docs}, c_format \in DocFormats :
            \E task \in WriteTasks(c_format), fields \in FieldsArgs(1, {"a"}) :
               DocsWriteOn(c_db, <<task>>, fields, c_format)
    \/ /\ d_last.op = "none"
       /\ \E c_db \in {NullDb, docs}, n \in 1..MaxHandleTasks,
             c_format \in {ukv_format_json_k, ukv_format_msgpack_k} :
            \E keys \in [1..n -> DocKeys], fields \in FieldsArgs(n, {"a"}) :
               DocsReadOn(c_db, keys, fields, c_format)
    \/ /\ d_last.op = "none"
       /\ \E c_db \in {NullDb, docs}, n \in 1..MaxHandleTasks :
            \E keys \in [1..n -> DocKeys] : DocsGistOn(c_db, keys)
    \/ /\ d_last.op = "none"
       /\ \E c_db \in {NullDb, docs}, n \in 1..MaxHandleTasks :
            \E keys \in [1..n -> DocKeys],
               columns \in {c \in GatherColumns : c.types[1] \in {"i32", ukv_type_str_k}} :
               DocsGatherOn(c_db, keys, columns, [fill |-> 0, overflow |-> 0])

SpecDocsHandle == DocsHandleInit /\ [][DocsHandleNext]_vars

(***************************************************************************)
(* Graph: state and actions                                                *)
(***************************************************************************)
TotalRecords(g) == Len(g[1].outs) + Len(g[2].outs) + Len(g[3].outs)

\* the upsert history after a removal: it starts again when the removal
\* left the collection empty
AfterRemoval(g) ==
    [ups |-> <<>>, pure |-> g = [v \in Vertices |-> MissingEntry], edges |-> <<>>]

GraphInit ==
    /\ GraphIdle /\ TxnIdle /\ BlobIdle /\ DocsIdle

\* status_t upsert(edge_t const& edge)
Upsert(edge) ==
    /\ TotalRecords(adj) < MaxEdges
    /\ adj' = upsert(adj, <<edge>>)
    /\ g_last' = [op |-> "upsert", v |-> 0, role |-> "none"]
    /\ g_hist' = [ups |-> IF g_hist.pure THEN Append(g_hist.ups, edge) ELSE <<>>,
                  pure |-> g_hist.pure, edges |-> <<>>]
    /\ UNCHANGED <<txn_vars, blob_vars, docs_vars>>

\* status_t remove(edge_t const& edge)
RemoveEdges(edge) ==
    /\ adj' = remove_edges(adj, <<edge>>)
    /\ g_last' = [op |-> "remove_edges", v |-> 0, role |-> "none"]
    /\ g_hist' = AfterRemoval(adj')
    /\ UNCHANGED <<txn_vars, blob_vars, docs_vars>>

\* status_t remove(ukv_key_t vertex, ukv_vertex_role_t role, bool flush)
RemoveVertexCall(v, role) ==
    /\ adj' = remove_vertex(adj, v, role)
    /\ g_last' = [op |-> "remove_vertex", v |-> v, role |-> role]
    /\ g_hist' = AfterRemoval(adj')
    /\ UNCHANGED <<txn_vars, blob_vars, docs_vars>>

GraphNext ==
    \/ \E edge \in EdgeSet : Upsert(edge)
    \/ \E edge \in [source_id : Vertices, target_id : Vertices,
                    edge_id : EdgeIds \cup {ukv_default_edge_id_k}] : RemoveEdges(edge)
    \/ \E v \in Vertices, role \in Roles : RemoveVertexCall(v, role)

SpecGraph == GraphInit /\ [][GraphNext]_vars

\* remove(edges_view_t) on graphs of up to MaxSeedEdges upserted edges
MaxSeedEdges == 2
MaxRemoveBatch == 2
RemoveRequests ==
    [source_id : Vertices, target_id : Vertices,
     edge_id : EdgeIds \cup {ukv_default_edge_id_k}]

GraphRemoveInit ==
    /\ \E n \in 0..MaxSeedEdges : \E seed \in [1..n -> EdgeSet] :
          /\ adj = upsert([v \in Vertices |-> MissingEntry], seed)
          /\ g_hist = [ups |-> seed, pure |-> TRUE, edges |-> <<>>]
    /\ g_last = [op |-> "none", v |-> 0, role |-> "none"]
    /\ TxnIdle /\ BlobIdle /\ DocsIdle

\* status_t remove(edges_view_t const& edges)
RemoveEdgesView(batch) ==
    /\ adj' = remove_edges(adj, batch)
    /\ g_last' = [op |-> "remove_edges", v |-> 0, role |-> "none"]
    /\ g_hist' = [ups |-> <<>>, pure |-> FALSE, edges |-> batch]
    /\ UNCHANGED <<txn_vars, blob_vars, docs_vars>>

\* one batch removal from every seeded graph
GraphRemoveNext ==
    /\ g_last.op = "none"
    /\ \E n \in 1..MaxRemoveBatch : \E batch \in [1..n -> RemoveRequests] :
          RemoveEdgesView(batch)

SpecGraphRemove == GraphRemoveInit /\ [][GraphRemoveNext]_vars

\* upserts, removals and the queries edges(source, target) and neighbors
MaxQueryEdges == 3
EdgeRequests ==
    [source_id : Vertices, target_id : Vertices,
     edge_id : EdgeIds \cup {ukv_default_edge_id_k}]

\* what the last call returned; the request and the graph before it are kept
\* for the queries and for a removal by the any-edge sentinel
NoGraph == <<>>
NoEdge == [source_id |-> 0, target_id |-> 0, edge_id |-> 0]
GraphCall(op, edge, v, before, result) ==
    [op |-> op, edge |-> edge, v |-> v, pre |-> before, result |-> result]

\* status_t upsert(edge_t const& edge)
QueryUpsert(edge) ==
    /\ TotalRecords(adj) < MaxQueryEdges
    /\ adj' = upsert(adj, <<edge>>)
    /\ g_last' = GraphCall("upsert", NoEdge, 0, NoGraph, <<>>)
    /\ UNCHANGED <<g_hist, txn_vars, blob_vars, docs_vars>>

\* status_t remove(edge_t const& edge)
QueryRemove(edge) ==
    /\ adj' = remove_edges(adj, <<edge>>)
    /\ g_last' = IF edge.edge_id = ukv_default_edge_id_k
                 THEN GraphCall("remove_edges", edge, 0, adj, <<>>)
                 ELSE GraphCall("remove_edges", NoEdge, 0, NoGraph, <<>>)
    /\ UNCHANGED <<g_hist, txn_vars, blob_vars, docs_vars>>

\* expected_gt<edges_span_t> edges(ukv_key_t source, ukv_key_t target, bool track)
QueryEdges(source, target) ==
    /\ \E found \in edges_between(adj, source, target) :
          g_last' = GraphCall("edges", [source_id |-> source, target_id |-> target,
                                        edge_id |-> ukv_default_edge_id_k],
                              0, NoGraph, found)
    /\ UNCHANGED <<adj, g_hist, txn_vars, blob_vars, docs_vars>>

\* expected_gt<strided_range_gt<ukv_key_t>> neighbors(ukv_key_t vertex)
QueryNeighbors(vertex) ==
    /\ g_last' = GraphCall("neighbors", [source_id |-> vertex, target_id |-> vertex,
                                         edge_id |-> ukv_default_edge_id_k],
                           vertex, NoGraph, neighbors(adj, vertex))
    /\ UNCHANGED <<adj, g_hist, txn_vars, blob_vars, docs_vars>>

GraphQueryNext ==
    \/ \E edge \in EdgeSet : QueryUpsert(edge)
    \/ \E edge \in EdgeRequests : QueryRemove(edge)
    \/ \E source \in Vertices, target \in Vertices : QueryEdges(source, target)
    \/ \E vertex \in Vertices : QueryNeighbors(vertex)

SpecGraphQuery == GraphInit /\ [][GraphQueryNext]_vars

(***************************************************************************)
(* Claims on the graph layer.                                              *)
(***************************************************************************)
\* the records of any list that reference the neighbour w
RefsTo(s, w) == Len(s) - Len(SeqFilterOut(s, w))

\* C1: after any sequence of edge upserts, edge removals and vertex removals
\* (with any role filter), every record (w,e) of v's out-list has a record
\* (v,e) in w's in-list, and every record (u,e) of v's in-list has a record
\* (v,e) in u's out-list.
C1_AdjacencySymmetry ==
    \A v \in Vertices :
        /\ \A rec \in Range(adj[v].outs) :
              adj[rec[1]].present /\ <<v, rec[2]>> \in Range(adj[rec[1]].ins)
        /\ \A rec \in Range(adj[v].ins) :
              adj[rec[1]].present /\ <<v, rec[2]>> \in Range(adj[rec[1]].outs)

\* C1 witness: a vertex removal with a one-sided role filter has acted and
\* edges remain in the graph.
C1_Witness ==
    /\ g_last.op = "remove_vertex"
    /\ g_last.role = ukv_vertex_source_k
    /\ adj[g_last.v].ins # <<>>
    /\ \E w \in Vertices \ {g_last.v} : adj[w].outs # <<>> /\ adj[w].ins # <<>>

\* C10: after remove(v, any) contains(v) is false, no list of another vertex
\* references v, and every record not referencing v is kept, so that the
\* degrees of the other vertices drop by the removed edges only.
C10_RemoveVertexAny ==
    [][(g_last'.op = "remove_vertex" /\ g_last'.role = ukv_vertex_role_any_k) =>
        LET v == g_last'.v IN
        /\ ~contains(adj', v)
        /\ \A u \in Vertices \ {v} :
              /\ RefsTo(adj'[u].outs, v) = 0 /\ RefsTo(adj'[u].ins, v) = 0
              /\ adj'[u].outs = SeqFilterOut(adj[u].outs, v)
              /\ adj'[u].ins = SeqFilterOut(adj[u].ins, v)
              /\ contains(adj', u) = contains(adj, u)
              /\ contains(adj, u) =>
                    /\ degree(adj', u, ukv_vertex_source_k) =
                         degree(adj, u, ukv_vertex_source_k) - RefsTo(adj[u].outs, v)
                    /\ degree(adj', u, ukv_vertex_target_k) =
                         degree(adj, u, ukv_vertex_target_k) - RefsTo(adj[u].ins, v)
      ]_vars

\* C10 witness: from edges 1->2, 2->3, 1->3 the vertex 2 was removed with
\* role any; the edge 1->3 survives.
C10_Witness ==
    /\ g_last = [op |-> "remove_vertex", v |-> 2, role |-> ukv_vertex_role_any_k]
    /\ ~contains(adj, 2)
    /\ Len(adj[1].outs) = 1 /\ adj[1].outs[1][1] = 3
    /\ degree(adj, 1, ukv_vertex_source_k) = 1
    /\ degree(adj, 3, ukv_vertex_target_k) = 1

\* the edges of the sequence es that satisfy the test on (source, target)
RECURSIVE EdgesWith(_, _, _)
EdgesWith(es, v, side) ==
    IF es = <<>> THEN <<>>
    ELSE (IF (IF side = ukv_vertex_source_k THEN Head(es).source_id
              ELSE Head(es).target_id) = v
          THEN <<Head(es)>> ELSE <<>>) \o EdgesWith(Tail(es), v, side)

\* the elements of a sequence of edges with their multiplicities
EdgeBag(es) == [e \in Range(es) |-> Len(SelectSeq(es, LAMBDA x : x = e))]

Distinct(es) == \A i, j \in 1..Len(es) : es[i] = es[j] => i = j

\* C11: after upserting distinct directed edges into an empty graph, for
\* every vertex v of those edges degree(v, source) is the number of the edges
\* whose source is v, degree(v, target) the number whose target is v, and
\* edges(v, any) holds v's out-edges followed by its in-edges.
C11_DegreesAndEdges ==
    (g_hist.pure /\ g_hist.ups # <<>> /\ Distinct(g_hist.ups)) =>
        \A v \in Vertices :
            LET outE == EdgesWith(g_hist.ups, v, ukv_vertex_source_k)
                inE == EdgesWith(g_hist.ups, v, ukv_vertex_target_k)
                all == edges(adj, v, ukv_vertex_role_any_k)
            IN IF outE = <<>> /\ inE = <<>>
               THEN /\ ~contains(adj, v)
                    /\ all = <<>>
               ELSE /\ degree(adj, v, ukv_vertex_source_k) = Len(outE)
                    /\ degree(adj, v, ukv_vertex_target_k) = Len(inE)
                    /\ Len(all) = Len(outE) + Len(inE)
                    /\ EdgeBag(SubSeq(all, 1, Len(outE))) = EdgeBag(outE)
                    /\ EdgeBag(SubSeq(all, Len(outE) + 1, Len(all))) = EdgeBag(inE)
                    /\ edges(adj, v, ukv_vertex_source_k) = SubSeq(all, 1, Len(outE))

\* C11 witness: the edges 1->2, 2->3 and 1->3 were upserted into the empty
\* graph: degree(1, source) = 2, degree(1, target) = 0, degree(3, target) = 2
\* and the targets of edges(1, any) are 2 and 3.
C11_Witness ==
    /\ g_hist.pure /\ Len(g_hist.ups) = 3 /\ Distinct(g_hist.ups)
    /\ {<<e.source_id, e.target_id>> : e \in Range(g_hist.ups)} =
          {<<1, 2>>, <<2, 3>>, <<1, 3>>}
    /\ degree(adj, 1, ukv_vertex_source_k) = 2
    /\ degree(adj, 1, ukv_vertex_target_k) = 0
    /\ degree(adj, 3, ukv_vertex_target_k) = 2
    /\ {e.target_id : e \in Range(edges(adj, 1, ukv_vertex_role_any_k))} = {2, 3}

\* is a record matching the request in the out-list of its source
InGraph(g, edge) ==
    \E i \in 1..Len(g[edge.source_id].outs) :
        MatchesEdge(g[edge.source_id].outs[i], edge.target_id, edge.edge_id)

\* the records of the list s that match (w, e)
Matching(s, w, e) == Len(SelectSeq(s, LAMBDA rec : MatchesEdge(rec, w, e)))

\* C12: remove(edges) skips the edges of the batch that are not in the graph:
\* the adjacency entries are what removing only the edges that are in the
\* graph leaves, nothing changes when none is in the graph, no entry appears
\* or disappears, and every edge of the batch that is in the graph loses a
\* record on both sides.
C12_RemoveSkipsMissing ==
    [][(g_last'.op = "remove_edges" /\ g_hist'.edges # <<>>) =>
        LET batch == g_hist'.edges
            found == SelectSeq(batch, LAMBDA e : InGraph(adj, e))
        IN /\ adj' = remove_edges(adj, found)
           /\ found = <<>> => adj' = adj
           /\ \A v \in Vertices : contains(adj', v) = contains(adj, v)
           /\ \A i \in 1..Len(found) :
                 LET e == found[i] IN
                 /\ Matching(adj'[e.source_id].outs, e.target_id, e.edge_id) <
                      Matching(adj[e.source_id].outs, e.target_id, e.edge_id)
                 /\ Matching(adj'[e.target_id].ins, e.source_id, e.edge_id) <
                      Matching(adj[e.target_id].ins, e.source_id, e.edge_id)
      ]_vars

\* C12 witness: a batch whose first edge is not in the graph and whose second
\* edge is has been removed, and the second edge is gone.
C12_Witness ==
    /\ g_last.op = "remove_edges" /\ Len(g_hist.edges) = 2
    /\ g_hist.edges[1] = [source_id |-> 3, target_id |-> 1, edge_id |-> 100]
    /\ g_hist.edges[2] = [source_id |-> 1, target_id |-> 2, edge_id |-> 100]
    /\ adj[1].present /\ adj[1].outs = <<>> /\ adj[1].ins = <<>>
    /\ adj[2].present /\ adj[2].ins = <<>> /\ adj[2].outs = <<>>
    /\ ~adj[3].present

(***************************************************************************)
(* Claims on transactions.                                                 *)
(***************************************************************************)
\* what a reader outside the transactions, or inside transaction u, finds
Visible(h, tx, u, k) == ReadVal(ukv_read(h, tx, u, k, FALSE))

\* the committed content after the writes of a log are applied to it
Replay(h, lg) ==
    [k \in Keys |-> IF lg.wlog[k].w = "put" THEN PresentVal(lg.wlog[k].bytes)
                    ELSE IF lg.wlog[k].w = "erase" THEN MissingVal
                    ELSE h[k]]

\* the step is a put or an erase of transaction t
WriteStep(t) ==
    \E k \in Keys : /\ t_hist'[t].wlog[k] # t_hist[t].wlog[k]
                    /\ t_hist'[t].wlog[k].w # "none"

\* the step is a commit of transaction t, returning res
CommitStep(t, res) == t_hist[t].result = "none" /\ t_hist'[t].result = res

\* C2: a put or erase of a transaction changes nothing that a reader outside
\* the transaction sees; a successful commit makes every write of the
\* transaction visible to every reader outside it.
C2_BufferedUntilCommit ==
    [][\A t \in Txns :
        /\ WriteStep(t) =>
             /\ head' = head
             /\ \A u \in (Txns \cup {NullTxn}) \ {t}, k \in Keys :
                   Visible(head', txn', u, k) = Visible(head, txn, u, k)
        /\ CommitStep(t, "true") =>
             \A k \in Keys :
                t_hist[t].wlog[k].w # "none" =>
                   /\ head'[k] = Replay(head, t_hist[t])[k]
                   /\ Visible(head', txn', NullTxn, k) = head'[k]
                   /\ \A u \in Txns \ {t} :
                         t_hist[u].wlog[k].w = "none" =>
                            Visible(head', txn', u, k) = head'[k]
      ]_vars

\* C2 witness: a transaction that put under key 1 and erased key 2 has
\* committed, and the other transaction had read a value under key 2 before.
C2_Witness ==
    \E t \in Txns :
        /\ t_hist[t].result = "true"
        /\ t_hist[t].wlog[1].w = "put"
        /\ t_hist[t].wlog[2].w = "erase"
        /\ \E u \in Txns \ {t} :
              t_hist[u].rlog[2].seen /\ t_hist[u].rlog[2].val.present
        /\ head[1] = PresentVal(<<7>>)
        /\ ~head[2].present

\* C3: a commit that succeeds for a transaction tracking its reads found
\* every value the transaction read still committed, and leaves the content
\* that executing the transaction alone at that point gives; a commit that
\* fails returns false and applies none of the writes.
C3_Serialisable ==
    [][\A t \in Txns :
        /\ CommitStep(t, "true") =>
             /\ head' = Replay(head, t_hist[t])
             /\ ~t_hist[t].untracked =>
                  /\ ~t_hist[t].incons
                  /\ \A k \in Keys :
                        t_hist[t].rlog[k].seen => t_hist[t].rlog[k].val = head[k]
        /\ CommitStep(t, "false") => head' = head
      ]_vars

\* C3 witness: two tracking transactions read the same key and wrote; one
\* has committed and the commit of the other was refused.
C3_Witness ==
    /\ \A t \in Txns : track_reads[t] /\ ~t_hist[t].untracked
    /\ \A t \in Txns : t_hist[t].rlog[1].seen
    /\ \A t \in Txns : \E k \in Keys : t_hist[t].wlog[k].w = "put"
    /\ \E t \in Txns : t_hist[t].result = "true"
    /\ \E t \in Txns : t_hist[t].result = "false"

(***************************************************************************)
(* Claims on blobs.                                                        *)
(***************************************************************************)
\* the last write, clear or erase that a read in context c of key k follows
LastOp(c, k) ==
    IF c # NullTxn /\ b_log[c][k].op # "never" THEN b_log[c][k]
    ELSE b_log[NullTxn][k]

\* C4: a read returns exactly the bytes of the last write to the address; it
\* reports present with the length 0 after a write of the empty value or a
\* clear; it reports the missing sentinel (present() false, Java get null)
\* after an erase or when the address was never written.
C4_BlobRoundTrip ==
    b_res.op # "none" =>
       LET e == LastOp(b_res.c, b_res.k)
           wrote == IF e.op = "write" THEN e.bytes ELSE <<>>
           there == e.op \in {"write", "clear"}
       IN /\ b_res.op = "value" =>
               IF there THEN b_res.len = Len(wrote) /\ b_res.bytes = wrote
               ELSE b_res.len = ukv_val_len_missing_k
          /\ b_res.op \in {"present", "containsKey"} => b_res.present = there
          /\ b_res.op = "get" =>
               IF there THEN ~b_res.null /\ b_res.bytes = wrote
               ELSE b_res.null

\* C4 witness: key 1 was written, then cleared, and the value read after the
\* clear is present and empty, while key 2, erased after a write, is missing
\* for a reader in the transaction that erased it.
C4_Witness ==
    /\ b_log[NullTxn][1].op = "clear"
    /\ head[1] = PresentVal(<<>>)
    /\ b_log[1][2].op = "erase"
    /\ head[2] = PresentVal(<<7>>)
    /\ b_res.op = "get" /\ b_res.c = 1 /\ b_res.k = 2 /\ b_res.null

(***************************************************************************)
(* Claims on documents.                                                    *)
(***************************************************************************)
SupportedFormats == DocFormats \ {ukv_format_other_k}
PatchFormats == {ukv_format_json_patch_k, ukv_format_json_merge_patch_k}

\* the tasks of the write call w that name the key k
TasksOn(w, k) == {i \in 1..Len(w.tasks) : w.tasks[i].key = k}

\* the read follows a successful write that names no field, in one of the
\* formats, of a document by the only task of the write that names the key
\* read; then it succeeds and returns one document equal to the written one
RoundTrips(formats) ==
    (d_last.op = "read" /\ d_last.after.op = "write") =>
       LET w == d_last.after
           k == d_last.keys[1]
       IN \A i \in TasksOn(w, k) :
             LET J == parse_any(ViewOfTask(w.tasks[i]), w.format).json
             IN (/\ w.format \in formats
                 /\ w.error = NoError
                 /\ TasksOn(w, k) = {i}
                 /\ ~HasFields(w.fields)
                 /\ w.tasks[i].val.ptr # "null"
                 /\ J # Discarded)
                => /\ d_last.error = NoError
                   /\ Len(d_last.outs) = 1
                   /\ parse_any(FoundBytes(d_last.outs[1]), d_last.format).json = J

\* C5 (as stated): for any JSON value J and any supported format F, a
\* docs_write of J in F without a field followed by a docs_read of the
\* address in F yields a document equal to J.
C5_RoundTripAnyFormat == RoundTrips(SupportedFormats)

\* C5 (amended): the round trip holds for every supported format but JSON
\* Patch and JSON Merge Patch, whose payload is applied to the stored
\* document instead of replacing it.
C5_RoundTripNonPatch == RoundTrips(SupportedFormats \ PatchFormats)

\* C5 witness: a document written in JSON text with its members out of order
\* over a stored document is read back as other bytes that parse to it.
C5_Witness ==
    /\ d_last.op = "read" /\ d_last.after.op = "write"
    /\ d_last.format = ukv_format_json_k
    /\ d_last.after.fields = NoFields
    /\ Len(d_last.after.tasks) = 1
    /\ d_last.after.tasks[1].val = DataArg(<<Chunk("json", TextBA)>>)
    /\ d_last.after.pre[d_last.keys[1]] = StoredDoc(TextBA)
    /\ d_last.error = NoError
    /\ d_last.outs[1].bytes # <<Chunk("json", TextBA)>>
    /\ ParseJsonBytes(d_last.outs[1].bytes) = ParseText(TextBA)

\* the write call took the read-modify-write path
TookReadModifyWrite(w) ==
    /\ ~(~HasFields(w.fields) /\ w.format = internal_format_k)
    /\ HasFields(w.fields) \/ w.format \in PatchFormats

\* the contents that applying the tasks one call at a time, in caller order,
\* can leave
OneAtATime(h, tasks, fields, c_format) ==
    LET step[i \in 0..Len(tasks)] ==
            IF i = 0 THEN {h}
            ELSE {r.head : r \in
                    {o \in UNION {ukv_docs_write(b, txn, NullTxn, <<tasks[i]>>,
                                                 FieldsOfTask(fields, i),
                                                 ukv_options_default_k, c_format) :
                                  b \in step[i-1]} : ~o.crashed}}
    IN step[Len(tasks)]

\* C6: after a docs_write batch that takes the read-modify-write path, with
\* repeated or unordered addresses too, the stored documents are those that
\* applying the tasks one at a time in caller order leaves.
C6_BatchAsSequence ==
    (/\ d_last.op = "write"
     /\ TookReadModifyWrite(d_last)
     /\ d_last.error = NoError
     /\ ~d_last.crashed)
    => docs \in OneAtATime(d_last.pre, d_last.tasks, d_last.fields, d_last.format)

\* C7: a docs_write call that reports an error has issued no substrate
\* write, and the content is as before the call.
C7_NoWriteAfterError ==
    (d_last.op = "write" /\ d_last.error # NoError)
    => ~d_last.issued /\ docs = d_last.pre

\* the document with the value at a top-level name or at a JSON Pointer
\* whose parent it holds replaced by the payload, or the payload inserted
\* there when the document has nothing at the field
SetAtField(doc, field, payload) ==
    LET ptr == IF StartsWithSlash(field.str) THEN json_ptr_t(field.str)
               ELSE <<field.str>>
        parent_ptr == SubSeq(ptr, 1, Len(ptr) - 1)
        parent == json_at(doc, parent_ptr)
    IN AssignAt(doc, parent_ptr, JObj(WithMember(parent.m, ptr[Len(ptr)], payload)))

\* the write call w of one task with a field, in one of the formats, of a
\* payload that parses, over a stored object that holds the parent of the
\* field, succeeded
FieldWriteDone(w, formats) ==
    /\ w.op = "write" /\ Len(w.tasks) = 1
    /\ w.format \in formats
    /\ HasFields(w.fields) /\ ~FieldAt(w.fields, 1).null
    /\ w.error = NoError /\ ~w.crashed
    /\ w.tasks[1].val.ptr # "null"
    /\ parse_any(ViewOfTask(w.tasks[1]), w.format).json # Discarded
    /\ w.pre[w.tasks[1].key].present
    /\ LET D == parse_any(w.pre[w.tasks[1].key].bytes, internal_format_k).json
           field == FieldAt(w.fields, 1).str
           ptr == IF StartsWithSlash(field) THEN json_ptr_t(field) ELSE <<field>>
       IN /\ D.kind = "object"
          /\ json_contains(D, SubSeq(ptr, 1, Len(ptr) - 1))
          /\ json_at(D, SubSeq(ptr, 1, Len(ptr) - 1)).kind = "object"

\* C13: after a successful docs_write of one task with a field in a format
\* that is no patch format, the stored document is the previous document
\* with the value at the field replaced by the payload (inserted when the
\* field was absent), every other member unchanged.
C13_FieldWriteSetsOnlyField ==
    FieldWriteDone(d_last, SupportedFormats \ PatchFormats) =>
        LET k == d_last.tasks[1].key
            D == parse_any(d_last.pre[k].bytes, internal_format_k).json
            J == parse_any(ViewOfTask(d_last.tasks[1]), d_last.format).json
        IN /\ docs[k].present
           /\ parse_any(docs[k].bytes, internal_format_k).json =
                 SetAtField(D, FieldAt(d_last.fields, 1), J)

\* C14: a successful docs_write of one task in JSON Patch or JSON Merge
\* Patch format against a field or path that the stored document does not
\* hold leaves the stored document as it was.
C14_PatchMissingFieldNoOp ==
    (/\ d_last.op = "write" /\ Len(d_last.tasks) = 1
     /\ d_last.format \in PatchFormats
     /\ HasFields(d_last.fields) /\ ~FieldAt(d_last.fields, 1).null
     /\ d_last.error = NoError /\ ~d_last.crashed
     /\ d_last.tasks[1].val.ptr # "null"
     /\ parse_any(ViewOfTask(d_last.tasks[1]), d_last.format).json # Discarded
     /\ d_last.pre[d_last.tasks[1].key].present
     /\ lookup_field(parse_any(d_last.pre[d_last.tasks[1].key].bytes,
                               internal_format_k).json,
                     FieldAt(d_last.fields, 1), JNull).shared)
    => docs[d_last.tasks[1].key] = d_last.pre[d_last.tasks[1].key]

\* the last task of the write call w that names the key k
LastTaskOn(w, k) == CHOOSE i \in TasksOn(w, k) : \A j \in TasksOn(w, k) : j <= i

\* after a successful write call that names no field, in one of the formats,
\* every key whose last task carries a payload that parses holds that
\* payload, whatever it held before
ReplacesWhole(formats) ==
    (/\ d_last.op = "write"
     /\ d_last.format \in formats
     /\ ~HasFields(d_last.fields)
     /\ d_last.error = NoError /\ ~d_last.crashed)
    => \A k \in Range(KeysOf(d_last.tasks)) :
          LET task == d_last.tasks[LastTaskOn(d_last, k)]
              J == parse_any(ViewOfTask(task), d_last.format).json
          IN (task.val.ptr # "null" /\ J # Discarded)
             => /\ docs[k].present
                /\ parse_any(docs[k].bytes, internal_format_k).json = J

TaskPermutations(n) ==
    {p \in [1..n -> 1..n] : \A i, j \in 1..n : i # j => p[i] # p[j]}
Permuted(seq, p) == [i \in 1..Len(seq) |-> seq[p[i]]]
PermutedFields(fields, p) ==
    IF fields.ptr = "null" \/ fields.stride = 0 THEN fields
    ELSE [fields EXCEPT !.items = Permuted(@, p)]

\* C8: for every permutation of the tasks of a successful read batch, the
\* read of the permuted batch succeeds and its outputs are the outputs of the
\* batch under the same permutation.
C8_ReadPermutation ==
    (d_last.op = "read" /\ d_last.error = NoError) =>
       \A p \in TaskPermutations(Len(d_last.keys)) :
          \E r \in {ukv_docs_read(docs, txn, NullTxn, Permuted(d_last.keys, p),
                                  PermutedFields(d_last.fields, p),
                                  ukv_options_default_k, d_last.format)} :
             /\ r.error = NoError
             /\ r.outs = Permuted(d_last.outs, p)

\* C8 witness: a batch of four tasks with a repeated key, out of order, with
\* a field for some tasks only, over three different contents, has been read
\* and the two tasks of the repeated key got different outputs.
C8_Witness ==
    /\ d_last.op = "read" /\ d_last.error = NoError
    /\ d_last.format = ukv_format_json_k
    /\ d_last.keys = <<3, 5, 1, 3>>
    /\ d_last.fields = FieldPerTask(<<Field("a"), NullField, Field("a"), NullField>>)
    /\ docs[1] = MissingVal /\ docs[3] = StoredDoc(TextBA)
    /\ docs[5] = StoredDoc(TextNested)
    /\ Len(d_last.outs) = 4
    /\ d_last.outs[1] # d_last.outs[4]

\* the output of the read of task i alone
ReadAlone(i) ==
    ukv_docs_read(docs, txn, NullTxn, <<d_last.keys[i]>>,
                  FieldsOfTask(d_last.fields, i), ukv_options_default_k,
                  d_last.format).outs[1]

FlagOf(call, bitmap, f, d) ==
    LET column == column_begin_t(f - 1, Len(call.keys), Len(call.fields))
    IN (call.mem.bitmaps[column[bitmap] + d \div 8] \div (2 ^ (d % 8))) % 2

\* valid, convert and collide of a cell
FlagsOf(call, f, d) ==
    <<FlagOf(call, "validities", f, d), FlagOf(call, "conversions", f, d),
      FlagOf(call, "collisions", f, d)>>

\* what the document of a cell holds at the field of the cell: the value, or
\* null when the field is absent
SourceOf(call, f, d) ==
    LET stored == call.pre[call.keys[d + 1]]
    IN found_value(parse_any(IF stored.present THEN stored.bytes ELSE <<>>,
                             internal_format_k).json,
                   call.fields[f])

ScalarTypes == {ukv_type_bool_k} \cup SignedTypes \cup UnsignedTypes \cup FloatTypes
StringTypes == {ukv_type_str_k, ukv_type_bin_k}

\* C16: in every cell a docs_gather call produces for a scalar, string or
\* binary type, valid and collide are not both set, convert is set only
\* with valid, and a null or absent field has none of the three set.
C16_FlagsConsistent ==
    (d_last.op = "gather" /\ d_last.error = NoError) =>
       \A f \in 1..Len(d_last.fields), d \in 0..(Len(d_last.keys) - 1) :
          d_last.types[f] \in ScalarTypes \cup StringTypes =>
             LET flags == FlagsOf(d_last, f, d)
             IN /\ ~(flags[1] = 1 /\ flags[3] = 1)
                /\ flags[2] = 1 => flags[1] = 1
                /\ SourceOf(d_last, f, d).kind = "null" => flags = <<0, 0, 0>>

\* whether a string is in full the text of a value of a scalar type
ParsesAs(str, type) ==
    IF type = ukv_type_bool_k THEN str \in {"true", "false"}
    ELSE IF type \in FloatTypes THEN str \in DOMAIN FloatText
    ELSE IF type \in SignedTypes THEN str \in DOMAIN IntText
    ELSE str \in DOMAIN IntText /\ IntText[str] >= 0

\* the decision table of a scalar column: the flags of a cell by the kind of
\* its source, where the types of unsigned make no conversion of an
\* unsigned integer
DecisionTable(source, type, unsigned) ==
    LET kind == value_type(source)
        Valid(convert) == <<1, IF convert THEN 1 ELSE 0, 0>>
    IN IF kind = "null" THEN <<0, 0, 0>>
       ELSE IF kind \in {"object", "array", "discarded"} THEN <<0, 0, 1>>
       ELSE IF kind = "binary"
       THEN IF Len(source.b) = min_memory_usage(type) THEN <<1, 1, 0>> ELSE <<0, 0, 1>>
       ELSE IF kind = "string"
       THEN IF ParsesAs(source.s, type) THEN <<1, 1, 0>> ELSE <<0, 0, 1>>
       ELSE IF kind = "boolean" THEN Valid(type # ukv_type_bool_k)
       ELSE IF kind = "number_integer" THEN Valid(type \notin SignedTypes)
       ELSE IF kind = "number_unsigned" THEN Valid(type \notin unsigned)
       ELSE Valid(type \notin FloatTypes)

\* the cells of the scalar columns of a gather call follow the table
FollowsTable(unsigned) ==
    (d_last.op = "gather" /\ d_last.error = NoError) =>
       \A f \in 1..Len(d_last.fields), d \in 0..(Len(d_last.keys) - 1) :
          d_last.types[f] \in ScalarTypes =>
             FlagsOf(d_last, f, d)
                = DecisionTable(SourceOf(d_last, f, d), d_last.types[f], unsigned)

\* C17: the flags of every cell of a numeric or boolean column are those of
\* the decision table; an integer is exported without conversion exactly
\* when it is signed and the type a signed integer, or unsigned and the type
\* an unsigned integer.
C17_DecisionTable == FollowsTable(UnsignedTypes)

\* the flags of a cell gathered alone into memory of zeroes: a flag is set
\* when the byte of its bitmap is not zero, wherever in the byte it is
AloneFlags(call, f, d) ==
    LET Set(bitmaps) == [i \in 1..3 |-> IF bitmaps[i] # 0 THEN 1 ELSE 0]
    IN Set(ukv_docs_gather(call.pre, txn, NullTxn, <<call.keys[d + 1]>>,
                           <<call.fields[f]>>, <<call.types[f]>>,
                           ukv_options_default_k,
                           [call.build EXCEPT !.fill = 0]).mem.bitmaps)

\* C19: in the bitmaps of a docs_gather call the flag of document d of a
\* column is bit d mod 8, from the least significant, of byte d div 8 of the
\* bitmap of the column: read there, the flags of every exported cell are
\* those of the cell gathered alone, and the bits of the last byte that
\* belong to no document, like those of a column that is not exported, are
\* as they were before the call.
C19_BitOfDocument ==
    (d_last.op = "gather" /\ d_last.error = NoError) =>
       \A f \in 1..Len(d_last.fields) :
          /\ \A d \in 0..(Len(d_last.keys) - 1) :
                IF d_last.types[f] \in ScalarTypes \cup StringTypes
                THEN FlagsOf(d_last, f, d) = AloneFlags(d_last, f, d)
                ELSE FlagsOf(d_last, f, d) = [i \in 1..3 |-> d_last.build.fill % 2]
          /\ \A d \in Len(d_last.keys)..(8 * ((Len(d_last.keys) + 7) \div 8) - 1) :
                FlagsOf(d_last, f, d) = [i \in 1..3 |-> d_last.build.fill % 2]

\* C19 witness: nine documents were gathered as i32 into zeroed memory, all
\* {"a":2,"b":"7"} but the third, {"a":"x"}: the validity and conversion
\* bytes of the column are 251 and 1, the collision bytes 4 and 0.
C19_Witness ==
    /\ d_last.op = "gather" /\ d_last.error = NoError
    /\ d_last.keys = <<3, 3, 1, 3, 3, 3, 3, 3, 3>>
    /\ d_last.fields = <<Field("a")>> /\ d_last.types = <<"i32">>
    /\ d_last.build.fill = 0
    /\ d_last.pre[1] = StoredJson(JObj([n \in {"a"} |-> JStr("x")]))
    /\ d_last.pre[3] # MissingVal
    /\ d_last.mem.bitmaps = <<251, 1, 251, 1, 4, 0>>

\* the text of a number: its decimal digits, for a floating-point number
\* as "%f" prints it
RenderedText(source) ==
    IF value_type(source) = "number_float" THEN snprintf_f(source)
    ELSE to_chars(source).chars

\* the cells of string columns whose source is a number
NumberAsString(f, d) ==
    /\ d_last.types[f] = ukv_type_str_k
    /\ value_type(SourceOf(d_last, f, d))
         \in {"number_integer", "number_unsigned", "number_float"}

\* the bytes of the strings tape the offset and length of a cell delimit
CellText(call, f, d) ==
    SubSeq(call.mem.output, call.mem.str_offsets[f][d + 1] + 1,
           call.mem.str_offsets[f][d + 1] + call.mem.str_lengths[f][d + 1])

\* two texts of the tape are the same characters
SameText(a, b) ==
    Len(a) = Len(b) /\ \A i \in 1..Len(a) : ToString(a[i]) = ToString(b[i])

\* a number gathered as a string is valid, without collision, exactly when
\* its text is of at most 31 characters, and is invalid with a collision
\* otherwise
FitsDecidesFlags(f, d) ==
    LET text == RenderedText(SourceOf(d_last, f, d))
    IN FlagsOf(d_last, f, d)
         = IF Len(text) + 1 <= print_buf_len_k THEN <<1, 1, 0>> ELSE <<0, 1, 1>>

\* C28: in a string column a numeric cell is valid with collide = 0 exactly
\* when its text with a NUL fits the buffer of 32 bytes, otherwise invalid
\* with collide = 1; for a valid cell offset and length delimit the whole
\* text on the strings tape, with or without its NUL
C28_NumberAsText ==
    (d_last.op = "gather" /\ d_last.error = NoError) =>
       \A f \in 1..Len(d_last.fields), d \in 0..(Len(d_last.keys) - 1) :
          NumberAsString(f, d) =>
             LET text == RenderedText(SourceOf(d_last, f, d))
             IN /\ FitsDecidesFlags(f, d)
                /\ FlagOf(d_last, "validities", f, d) = 1 =>
                      \/ SameText(CellText(d_last, f, d), text)
                      \/ SameText(CellText(d_last, f, d), text \o <<"NUL">>)

(***************************************************************************)
(* Claims on a document written, patched and gathered.                     *)
(***************************************************************************)
\* a successful write of one document to key 1 without a field
WroteTo1(call, text, c_format) ==
    /\ call.op = "write" /\ call.error = NoError /\ ~call.crashed
    /\ call.format = c_format
    /\ call.fields = NoFields
    /\ call.tasks = ScenarioTask(text, c_format)

\* {"a":1,"b":"7"} was written as JSON text, the merge patch {"a":2} was
\* applied, and the members a and b were gathered as i32
PatchedThenGathered ==
    /\ d_last.op = "gather" /\ d_last.error = NoError
    /\ d_last.keys = <<1>>
    /\ d_last.fields = <<Field("a"), Field("b")>>
    /\ d_last.types = <<"i32", "i32">>
    /\ WroteTo1(d_last.after, TObj(<<<<"a", JNum(2)>>>>), ukv_format_json_merge_patch_k)
    /\ WroteTo1(d_last.after.after, TextBA, ukv_format_json_k)
    /\ d_last.after.after.after.op = "none"

\* the columns of that gather: a is [2], valid, with the given conversion
\* flag; b is [7], valid and converted
GathersTwoAndSeven(convert_a) ==
    PatchedThenGathered =>
       /\ d_last.mem.scalars[1] = <<Scalar("int", 2, 0)>>
       /\ FlagOf(d_last, "validities", 1, 0) = 1
       /\ FlagOf(d_last, "conversions", 1, 0) = convert_a
       /\ d_last.mem.scalars[2] = <<Scalar("int", 7, 0)>>
       /\ FlagOf(d_last, "validities", 2, 0) = 1
       /\ FlagOf(d_last, "conversions", 2, 0) = 1

\* C18 (as stated): after {"a":1,"b":"7"} is written as JSON text to key 1
\* and the merge patch {"a":2} is applied without a field, gathering a and b
\* as i32 gives a = [2], valid and not converted, and b = [7], valid and
\* converted.
C18_GatherUnconverted == GathersTwoAndSeven(0)

\* C18 (amended): the same gather gives a = [2], valid and converted, as 2
\* is an unsigned integer and i32 a signed type, and b = [7], valid and
\* converted.
C18_GatherConverted == GathersTwoAndSeven(1)

\* C18 witness: the write, the patch and the gather were made, and key 1
\* holds {"a":2,"b":"7"}; no cell collides.
C18_Witness ==
    /\ PatchedThenGathered
    /\ docs[1] = StoredJson(JObj([n \in {"a", "b"} |->
                                    IF n = "a" THEN JNum(2) ELSE JStr("7")]))
    /\ FlagsOf(d_last, 1, 0) = <<1, 1, 0>>
    /\ FlagsOf(d_last, 2, 0) = <<1, 1, 0>>

\* the merge patch a successful patch call applied
PatchOf(call) == ParseText(call.tasks[1].val.bytes[1].j)

\* two merge patches were applied, one after the other
PatchedTwice ==
    /\ d_last.op = "write" /\ d_last.error = NoError /\ ~d_last.crashed
    /\ d_last.format = ukv_format_json_merge_patch_k
    /\ d_last.after.op = "write" /\ d_last.after.error = NoError
    /\ ~d_last.after.crashed
    /\ d_last.after.format = ukv_format_json_merge_patch_k

\* the document is what one call with the merge of the two patches leaves
\* of the document the first patch was applied to
AsMergedOnce ==
    \A once \in ukv_docs_write(d_last.after.pre, txn, NullTxn,
                               ScenarioTask(DumpText(merge_patch(PatchOf(d_last.after),
                                                                 PatchOf(d_last))),
                                            ukv_format_json_merge_patch_k),
                               NoFields, ukv_options_default_k,
                               ukv_format_json_merge_patch_k) :
       once.error = NoError /\ once.head[1] = docs[1]

RECURSIVE NoNulls(_)
\* a patch that removes nothing: no member is null at any depth
NoNulls(p) ==
    /\ p.kind # "null"
    /\ p.kind = "object" => \A n \in DOMAIN p.m : NoNulls(p.m[n])

RECURSIVE Fits(_, _)
\* where the second patch holds an object the first holds an object or
\* nothing
Fits(p1, p2) ==
    p2.kind = "object" =>
       /\ p1.kind = "object"
       /\ \A n \in (DOMAIN p2.m) \cap (DOMAIN p1.m) : Fits(p1.m[n], p2.m[n])

\* C20 (as stated): for every document and merge patches P1 and P2, also
\* those with null members, applying P1 and then P2 leaves what applying
\* once the merge patch of P1 with P2 leaves.
C20_MergeComposesAlways == PatchedTwice => AsMergedOnce

\* C20 (amended): the same, for a P2 without a null member at any depth
\* that holds objects only where P1 holds an object or nothing.
C20_MergeComposes ==
    (/\ PatchedTwice
     /\ NoNulls(PatchOf(d_last))
     /\ Fits(PatchOf(d_last.after), PatchOf(d_last))) => AsMergedOnce

\* C20 witness: {"a":null} and then {"a":2} were applied to
\* {"a":1,"b":"7"}, which leaves {"a":2,"b":"7"}, as the merged patch
\* {"a":2} does.
C20_Witness ==
    /\ PatchedTwice
    /\ WroteTo1(d_last.after.after, TextBA, ukv_format_json_k)
    /\ PatchOf(d_last.after) = ParseText(TextANull)
    /\ PatchOf(d_last) = JObj([n \in {"a"} |-> JNum(2)])
    /\ merge_patch(PatchOf(d_last.after), PatchOf(d_last)) = PatchOf(d_last)
    /\ docs[1] = StoredJson(JObj([n \in {"a", "b"} |->
                                    IF n = "a" THEN JNum(2) ELSE JStr("7")]))
    /\ AsMergedOnce

(***************************************************************************)
(* Claims on the gist.                                                     *)
(***************************************************************************)
RECURSIVE SplitAtNul(_, _)
\* the strings packed on a tape, each up to its NUL; the characters after
\* the last NUL are a string without one
SplitAtNul(tape, current) ==
    IF tape = <<>> THEN (IF current = <<>> THEN <<>> ELSE <<current \o <<"unterminated">>>>)
    ELSE IF Head(tape) = "NUL" THEN <<current>> \o SplitAtNul(Tail(tape), <<>>)
    ELSE SplitAtNul(Tail(tape), Append(current, Head(tape)))

\* the pointers of the leaf values of the document stored under a key: none
\* where nothing is stored
LeafPaths(stored) ==
    IF stored.present
    THEN flatten(<<>>, parse_any(stored.bytes, internal_format_k).json)
    ELSE {}

\* C21: docs_gist over a batch of addresses returns the union of the JSON
\* Pointers of the leaf values of the addressed documents, each once and
\* with its NUL, and the count of the distinct paths; the set is a function
\* of the set of addresses, whatever their order and repetition.
C21_GistUnion ==
    d_last.op = "gist" =>
       LET found == SplitAtNul(d_last.found_fields, <<>>)
       IN /\ d_last.error = NoError
          /\ Range(found) = UNION {LeafPaths(d_last.pre[k]) : k \in Range(d_last.keys)}
          /\ Len(found) = Cardinality(Range(found))
          /\ d_last.found_fields_count = Len(found)

Canonical(stored) ==
    stored.present =>
       LET parsed == parse_any(stored.bytes, internal_format_k)
       IN /\ parsed.error = NoError
          /\ parsed.json # Discarded
          /\ stored.bytes = dump_any(parsed.json, internal_format_k).bytes

\* C23: after a docs_write call in any format, with or without fields,
\* every value stored under a written address is the internal encoding of a
\* parsed document, so that no later read, gist or gather of the address
\* meets bytes it cannot parse.
C23_StoredCanonical ==
    (d_last.op = "write" /\ ~d_last.crashed) =>
       \A k \in Range(KeysOf(d_last.tasks)) : Canonical(docs[k])

(***************************************************************************)
(* Claims on the graph queries                                             *)
(***************************************************************************)
\* how many times a record occurs in a sequence of records
Occurrences(records, e) == Cardinality({i \in DOMAIN records : records[i] = e})

\* the edges of the graph from one vertex to another, as its out-list has them
EdgesFromTo(g, source, target) ==
    SelectSeq(ukv_graph_find_edges_neighborships(g, source, ukv_vertex_source_k),
              LAMBDA e : e.target_id = target)

\* C24: after any sequence of edge upserts and removals, edges(u, v) returns
\* exactly the edges of the graph whose source is u and whose target is v,
\* each as many times as the graph holds it, and no others
C24_EdgesBetweenExact ==
    g_last.op = "edges" =>
        \A e \in EdgeSet :
            Occurrences(g_last.result, e)
              = Occurrences(EdgesFromTo(adj, g_last.edge.source_id,
                                        g_last.edge.target_id), e)

\* the last call was remove(u, v, any-edge sentinel) on a graph holding
\* several edges from u to v
RemovedAnyOfSeveral ==
    /\ g_last.op = "remove_edges"
    /\ g_last.edge.edge_id = ukv_default_edge_id_k
    /\ Len(EdgesFromTo(g_last.pre, g_last.edge.source_id, g_last.edge.target_id)) > 1

\* a list is another one less one occurrence of a record
LessOne(after, before, record) ==
    /\ Len(after) = Len(before) - 1
    /\ \A w \in Vertices, e \in EdgeIds :
          Occurrences(after, <<w, e>>)
            = Occurrences(before, <<w, e>>) - (IF <<w, e>> = record THEN 1 ELSE 0)

\* C25: remove(u, v, any-edge sentinel) on a graph holding several edges from
\* u to v drops one record (v,e) from u's out-list and the record (u,e) of the
\* same edge id from v's in-list; every other record stays on both sides
C25_SentinelRemovesOneEdge ==
    RemovedAnyOfSeveral =>
        LET u == g_last.edge.source_id
            v == g_last.edge.target_id
        IN \E e \in EdgeIds :
              /\ LessOne(adj[u].outs, g_last.pre[u].outs, <<v, e>>)
              /\ LessOne(adj[v].ins, g_last.pre[v].ins, <<u, e>>)
              /\ \A w \in Vertices :
                    /\ w # u => adj[w].outs = g_last.pre[w].outs
                    /\ w # v => adj[w].ins = g_last.pre[w].ins

\* a removal by the sentinel from a graph holding two edges of different ids
\* from u to v and an edge to another target
C25_Witness ==
    /\ RemovedAnyOfSeveral
    /\ \E e1, e2 \in EdgeIds :
          /\ e1 # e2
          /\ Occurrences(g_last.pre[g_last.edge.source_id].outs,
                         <<g_last.edge.target_id, e1>>) = 1
          /\ Occurrences(g_last.pre[g_last.edge.source_id].outs,
                         <<g_last.edge.target_id, e2>>) = 1
    /\ Len(g_last.pre[g_last.edge.source_id].outs) = 3
    /\ Len(EdgesFromTo(adj, g_last.edge.source_id, g_last.edge.target_id)) = 1

\* C26: neighbors(v) returns, for every edge incident to v, outgoing or
\* incoming, the endpoint other than v (v itself only for a self-loop), in
\* the order of the records of edges(v, any)
C26_NeighborsAreFarEnds ==
    g_last.op = "neighbors" => g_last.result = neighbors_FarEnd(adj, g_last.v)

(***************************************************************************)
(* Claims on the optional bitmaps of a gather                              *)
(***************************************************************************)
\* the call left out the conversion bitmaps, the collision bitmaps or both
OmittedBitmaps == d_last.op = "gather" /\ d_last.wants # AllBitmaps

\* the bytes of the validity bitmaps of all columns
ValidityBitmaps(mem, docs_count, fields_count) ==
    SubSeq(mem.bitmaps, 1,
           fields_count * (docs_count \div 8 + (IF docs_count % 8 # 0 THEN 1 ELSE 0)))

\* C27: docs_gather called without the conversion and/or collision bitmaps
\* completes, with the error, the validity bitmaps and the column values of
\* the same call with all three bitmaps requested
C27_OmittedBitmapsSameColumns ==
    OmittedBitmaps =>
        LET full == ukv_docs_gather(d_last.pre, txn, NullTxn, d_last.keys,
                                    d_last.fields, d_last.types,
                                    ukv_options_default_k, d_last.build)
            n == Len(d_last.keys)
            m == Len(d_last.fields)
        IN /\ d_last.completed /\ ~d_last.stray
           /\ d_last.error = full.error
           /\ ValidityBitmaps(d_last.mem, n, m) = ValidityBitmaps(full.mem, n, m)
           /\ d_last.mem.scalars = full.mem.scalars
           /\ d_last.mem.str_offsets = full.mem.str_offsets
           /\ d_last.mem.str_lengths = full.mem.str_lengths
           /\ d_last.mem.output = full.mem.output

(***************************************************************************)
(* Claims on the fields view of a gather                                   *)
(***************************************************************************)
\* C29: a docs_gather call whose fields view has no stride gathers every
\* column from the one field of the view, as docs_read and docs_write apply
\* the field of such a view to every task
C29_ZeroStrideRepeatsField ==
    (d_last.op = "gather" /\ d_last.view.stride = 0) =>
       LET repeated == [f \in 1..Len(d_last.types) |-> FieldAt(d_last.view, f)]
           same == ukv_docs_gather(d_last.pre, txn, NullTxn, d_last.keys, repeated,
                                   d_last.types, ukv_options_default_k, d_last.build)
       IN d_last.error = same.error /\ d_last.mem = same.mem

(***************************************************************************)
(* Claims on the rollback of a transaction                                 *)
(***************************************************************************)
\* the step is a rollback of transaction t that had something to undo
RollbackStep(t) ==
    /\ t_hist'[t] # t_hist[t]
    /\ t_hist'[t].wlog = FreshWrites.wlog
    /\ t_hist'[t].result = "none"

====
